---- MODULE Spec2Model ----
(***************************************************************************)
(* A model of right_api_cmd (rs-api): the HTTP client of http.go           *)
(* (src/unnamed/part_001, lines 1-394) and the command of src/main.go.     *)
(*                                                                         *)
(* Go strings are TLA+ strings (TLC evaluates Len, SubSeq and \o on them). *)
(* A Go pointer or error that may be nil is a sequence: <<>> is nil and    *)
(* <<v>> is a non-nil value v.  A Go interface{} holding decoded JSON is a *)
(* record tagged with its dynamic type, [t |-> "nil"] being the nil        *)
(* interface.                                                              *)
(***************************************************************************)
EXTENDS Integers, Sequences, FiniteSets, TLC

VARIABLES
    c,          \* the client struct a Do call runs on (its receiver)
    call,       \* the arguments of the Do call in progress
    req,        \* the *http.Request built by Do
    dump,       \* the request dump Do keeps for logging and recording
    try,        \* Do's local variable try
    attempts,   \* number of c.cl.Do(req) calls made by the Do call so far
    responses,  \* number of those calls that produced an *http.Response
    last,       \* outcome of the most recent c.cl.Do(req) call
    log,        \* kind, status and readability of every outcome so far, in order
    ret,        \* what the Do call returned: [resp, err]
    classified, \* what processResponse returned for the most recent response
    recording,  \* what Do wrote to c.recorder
    dpc,        \* position of the Do call
    os,         \* the command's inputs: parsed flags and arguments, environment
                \* variables, the proxy secret file
    rsClientInternal, \* the cached client handle of main.go
    pc,         \* position of main()
    pending,    \* the Do call rightscale() was called for, while it authenticates
    resourceHref, \* *resourceHref once it is resolved
    out,        \* what the command printed and how it exited
    builds,     \* clients constructed since rsClientInternal was last nil
    authCalls,  \* token exchanges started since rsClientInternal was last nil
    lastNew,    \* the most recent constructor call of this run and its result
    warned,     \* what the run wrote to stderr before its end
    qsArgs,     \* the args map of a queryStringArgs call, in the order range gives it
    qs,         \* what the queryStringArgs call returned
    qspc,       \* position of the queryStringArgs call
    ReqResp,    \* main.go's global ReqResp, the recording of the run
    recordFile, \* the recordings appended to the --record file, in order
    testCase,   \* the recording recording_test.go is replaying, or nil
    reqBody,    \* what is left to read of req.Body, the strings.Reader on content
    wire,       \* the request each c.cl.Do(req) call so far wrote, in order
    argv,       \* os.Args[1:] of a captureCmdArgs call
    captured,   \* what the captureCmdArgs call returned
    cpc         \* position of the captureCmdArgs call

doVars == <<c, call, req, dump, try, attempts, responses, last, log, ret, classified,
            recording, dpc, reqBody, wire>>
cmdVars == <<os, rsClientInternal, pc, pending, resourceHref, out, builds, authCalls,
             lastNew, warned>>
fnVars == <<qsArgs, qs, qspc, argv, captured, cpc>>
recVars == <<ReqResp, recordFile, testCase>>
vars == <<doVars, cmdVars, fnVars, recVars>>

----------------------------------------------------------------------------
(* Bounds *)

\* cap on the transport errors the network gives one Do call
MaxTransportErrors == 3

----------------------------------------------------------------------------
(* Go values *)

Nil == <<>>
Ptr(v) == <<v>>
Deref(p) == p[1]

\* strings.HasPrefix
HasPrefix(s, p) == Len(s) >= Len(p) /\ SubSeq(s, 1, Len(p)) = p

\* strings.Contains for a one-character needle
ContainsChar(s, ch) == \E i \in 1..Len(s) : SubSeq(s, i, i) = ch

\* strings.Join
RECURSIVE Join(_, _)
Join(l, sep) ==
    IF Len(l) = 0 THEN ""
    ELSE IF Len(l) = 1 THEN l[1]
    ELSE l[1] \o sep \o Join(Tail(l), sep)

\* a []string: the nil slice and the empty slice differ (args != nil)
NilSlice == [isNil |-> TRUE, elems |-> <<>>]
Slice(l) == [isNil |-> FALSE, elems |-> l]

\* decoded JSON held in an interface{}
JNil == [t |-> "nil"]
JStr(s) == [t |-> "string", s |-> s]
JNum(n) == [t |-> "number", n |-> n]
JArr(a) == [t |-> "array", a |-> a]
JObj(m) == [t |-> "object", m |-> m]

\* an error value: its message (err.Error())
Error(msg) == Ptr(msg)
ErrorText(e) == Deref(e)

\* http.Response.Status, the status line of a response
Status(code) == ToString(code)

\* http.Header.Set on a header held as a set of <<name, value>>
HeaderSet(h, k, v) == {p \in h : p[1] # k} \cup {<<k, v>>}

\* http.Header.Get
HeaderGet(h, k) == IF \E p \in h : p[1] = k THEN (CHOOSE p \in h : p[1] = k)[2] ELSE ""

HeaderHas(h, k) == \E p \in h : p[1] = k

----------------------------------------------------------------------------
(* The environment: what one c.cl.Do(req) call can produce *)

StatusCodes == {200, 299, 404, 500}

\* bodies the token endpoint answers with
TokenBodies == {"", "junk", "{\"access_token\":\"tok\"}", "{\"access_token\":\"\"}",
                "{\"access_token\":1}", "{\"error_description\":\"bad\"}", "[1]", "{}"}

\* bodies the proxy answers GET /rll/env with
EnvBodies == {"{\"RS_SELF_HREF\":\"/api/clouds/1/instances/2\"}", "{\"RS_SELF_HREF\":\"\"}", "{}"}

\* bodies GET /api/session/instance is answered with
InstanceBodies ==
    {"{\"links\":[{\"rel\":\"self\",\"href\":\"/api/clouds/1/instances/2\"}]}", "{}"}

\* bodies any other resource answers with
ResourceBodies ==
    {"", "{}", "junk", "null", "{ \"x\" : 1 }",
     "{\"links\":[{\"href\":\"/a\"},{\"href\":\"/b\"},{\"href\":\"/a\"}],\"rel\":null,\"x\":\"s\"}"}

ServerBodies(path) ==
    CASE path = "/api/oauth2" -> TokenBodies
      [] path = "/rll/env" -> EnvBodies
      [] path = "/api/session/instance" -> InstanceBodies
      [] path = "/rll/env/RS_SELF_HREF" -> {""}
      [] OTHER -> ResourceBodies

\* err != nil, res == nil: the request did not happen
TransportError == [kind |-> "error", status |-> 0, body |-> "", readOK |-> FALSE]

\* err == nil: a response with a status, a body stream, and whether reading
\* the stream to its end succeeds (ioutil.ReadAll returns an error or not)
HTTPResponses(path) ==
    [kind : {"response"}, status : StatusCodes, body : ServerBodies(path), readOK : {TRUE}]
    \cup [kind : {"response"}, status : StatusCodes, body : {""}, readOK : {FALSE}]

NoOutcome == [kind |-> "none", status |-> 0, body |-> "", readOK |-> FALSE]

\* what the log keeps of an outcome
LogEntry(o) == [kind |-> o.kind, status |-> o.status, readOK |-> o.readOK]

\* encoding/json Decoder.Decode into an interface{} on the bodies above:
\* io.EOF on an empty stream, a syntax error on text that is not JSON,
\* the decoded value otherwise (JSON null decodes to the nil interface)
jsonDecode(b) ==
    CASE b = "" -> [err |-> "EOF", data |-> JNil]
      [] b = "{}" -> [err |-> "", data |-> JObj(<<>>)]
      [] b = "junk" -> [err |-> "invalid character 'j' looking for beginning of value",
                        data |-> JNil]
      [] b = "{\"access_token\":\"tok\"}" ->
            [err |-> "", data |-> JObj([access_token |-> JStr("tok")])]
      [] b = "{\"access_token\":\"\"}" ->
            [err |-> "", data |-> JObj([access_token |-> JStr("")])]
      [] b = "{\"access_token\":1}" ->
            [err |-> "", data |-> JObj([access_token |-> JNum(1)])]
      [] b = "{\"error_description\":\"bad\"}" ->
            [err |-> "", data |-> JObj([error_description |-> JStr("bad")])]
      [] b = "[1]" -> [err |-> "", data |-> JArr(<<JNum(1)>>)]
      [] b = "null" -> [err |-> "", data |-> JNil]
      [] b = "{ \"x\" : 1 }" -> [err |-> "", data |-> JObj([x |-> JNum(1)])]
      [] b = "{\"links\":[{\"href\":\"/a\"},{\"href\":\"/b\"},{\"href\":\"/a\"}],\"rel\":null,\"x\":\"s\"}" ->
            [err |-> "",
             data |-> JObj([links |-> JArr(<<JObj([href |-> JStr("/a")]),
                                             JObj([href |-> JStr("/b")]),
                                             JObj([href |-> JStr("/a")])>>),
                            rel |-> JNil,
                            x |-> JStr("s")])]
      [] b = "{\"RS_SELF_HREF\":\"/api/clouds/1/instances/2\"}" ->
            [err |-> "", data |-> JObj([RS_SELF_HREF |-> JStr("/api/clouds/1/instances/2")])]
      [] b = "{\"RS_SELF_HREF\":\"\"}" ->
            [err |-> "", data |-> JObj([RS_SELF_HREF |-> JStr("")])]
      [] b = "{\"links\":[{\"rel\":\"self\",\"href\":\"/api/clouds/1/instances/2\"}]}" ->
            [err |-> "",
             data |-> JObj([links |-> JArr(<<JObj([rel |-> JStr("self"),
                                                  href |-> JStr("/api/clouds/1/instances/2")])>>)])]

\* the keys of the JSON objects above in the order encoding/json writes them
\* (sorted by byte value)
KeyOrder == <<"RS_SELF_HREF", "access_token", "error_description", "href", "links",
              "rel", "x">>

\* encoding/json Marshal of a decoded value: compact, object keys sorted
RECURSIVE jsonMarshal(_)
RECURSIVE marshalMembers(_, _, _)
RECURSIVE marshalElements(_, _)
marshalMembers(m, i, sep) ==
    IF i > Len(KeyOrder) THEN ""
    ELSE IF KeyOrder[i] \in DOMAIN m THEN
        sep \o "\"" \o KeyOrder[i] \o "\":" \o jsonMarshal(m[KeyOrder[i]])
            \o marshalMembers(m, i + 1, ",")
    ELSE marshalMembers(m, i + 1, sep)
marshalElements(a, sep) ==
    IF Len(a) = 0 THEN ""
    ELSE sep \o jsonMarshal(Head(a)) \o marshalElements(Tail(a), ",")
jsonMarshal(v) ==
    CASE v.t = "nil" -> "null"
      [] v.t = "string" -> "\"" \o v.s \o "\""
      [] v.t = "number" -> ToString(v.n)
      [] v.t = "array" -> "[" \o marshalElements(v.a, "") \o "]"
      [] v.t = "object" -> "{" \o marshalMembers(v.m, 1, "") \o "}"

\* fmt's %v / %+v of a decoded value (map keys sorted)
RECURSIVE goSprint(_)
RECURSIVE sprintMembers(_, _, _)
RECURSIVE sprintElements(_, _)
sprintMembers(m, i, sep) ==
    IF i > Len(KeyOrder) THEN ""
    ELSE IF KeyOrder[i] \in DOMAIN m THEN
        sep \o KeyOrder[i] \o ":" \o goSprint(m[KeyOrder[i]]) \o sprintMembers(m, i + 1, " ")
    ELSE sprintMembers(m, i + 1, sep)
sprintElements(a, sep) ==
    IF Len(a) = 0 THEN ""
    ELSE sep \o goSprint(Head(a)) \o sprintElements(Tail(a), " ")
goSprint(v) ==
    CASE v.t = "nil" -> "<nil>"
      [] v.t = "string" -> v.s
      [] v.t = "number" -> ToString(v.n)
      [] v.t = "array" -> "[" \o sprintElements(v.a, "") \o "]"
      [] v.t = "object" -> "map[" \o sprintMembers(v.m, 1, "") \o "]"

\* net/url Parse as used by http.NewRequest: a blank in the URL is rejected
urlParse(u) ==
    IF ContainsChar(u, " ") THEN Error("parse " \o u \o ": invalid character \" \" in host name")
    ELSE Nil

----------------------------------------------------------------------------
(* http.go: client helpers *)

\* client.makeURL
makeURL(cl, uri) ==
    LET u == IF ~HasPrefix(uri, "/") THEN "/" \o uri ELSE uri
    IN  cl.httpServer \o u

\* the path Do's request is for (req.URL.Path)
urlPath(uri) == IF ~HasPrefix(uri, "/") THEN "/" \o uri ELSE uri

\* setHeaders with the bearer token taking precedence over the proxy secret
setHeaders_TokenFirst(cl, h) ==
    LET h1 == IF cl.authToken # "" THEN
                  HeaderSet(h, "Authorization", "Bearer " \o cl.authToken)
              ELSE IF cl.proxySecret # "" THEN HeaderSet(h, "X-RLL-Secret", cl.proxySecret)
              ELSE h
        h2 == IF cl.account # "" THEN HeaderSet(h1, "X-Account", cl.account) ELSE h1
        h3 == HeaderSet(h2, "X-API-VERSION", cl.apiVersion)
    IN  HeaderSet(h3, "User-Agent", "right_api_cmd")

\* client.setHeaders
setHeaders(cl, h) ==
    LET h1 == IF cl.proxySecret # "" THEN HeaderSet(h, "X-RLL-Secret", cl.proxySecret)
              ELSE IF cl.authToken # "" THEN
                  HeaderSet(h, "Authorization", "Bearer " \o cl.authToken)
              ELSE h
        h2 == IF cl.account # "" THEN HeaderSet(h1, "X-Account", cl.account) ELSE h1
        h3 == HeaderSet(h2, "X-API-VERSION", cl.apiVersion)
    IN  HeaderSet(h3, "User-Agent", "right_api_cmd")

\* readBody: ioutil.ReadAll of the response's stream; on success the stream
\* is replaced by a fresh reader over the bytes read
readBody(res) ==
    [body |-> res.stream,
     err |-> IF res.readOK THEN Nil ELSE Error("unexpected EOF"),
     res |-> res]

\* parseResponseBody without the io.EOF case
parseResponseBody_EOFIsError(stream) ==
    LET d == jsonDecode(stream)
    IN  IF d.err # "" THEN
            [data |-> JNil, err |-> Error("error decoding json: " \o d.err)]
        ELSE [data |-> d.data, err |-> Nil]

\* parseResponseBody: decodes the stream, which the decoder reads to its end
parseResponseBody(stream) ==
    LET d == jsonDecode(stream)
    IN  IF d.err = "EOF" THEN [data |-> JNil, err |-> Nil]
        ELSE IF d.err # "" THEN
            [data |-> JNil, err |-> Error("error decoding json: " \o d.err)]
        ELSE [data |-> d.data, err |-> Nil]

\* the Response struct
Response(statusCode, errorMessage, data, raw, header) ==
    [statusCode |-> statusCode, errorMessage |-> errorMessage, data |-> data,
     raw |-> raw, header |-> header]

\* processResponse: res is [status, stream, readOK, hasBody, header]; the
\* result carries the response as Do's later readBody finds it
processResponse(rq, res) ==
    LET r == Response(res.status, "", JNil, "", res.header)
        rb == readBody(res)
        consumed == [res EXCEPT !.stream = ""]
    IN  IF res.status >= 200 /\ res.status < 299 THEN
            IF rb.err # Nil THEN
                [resp |-> Nil,
                 err |-> Error("HTTP " \o rq.method \o " " \o rq.path \o ": "
                               \o ErrorText(rb.err)),
                 res |-> consumed]
            ELSE
                LET p == parseResponseBody(rb.res.stream)
                IN  IF p.err # Nil THEN
                        [resp |-> Nil,
                         err |-> Error("HTTP " \o rq.method \o " " \o rq.path \o ": "
                                       \o ErrorText(p.err)),
                         res |-> consumed]
                    ELSE
                        [resp |-> Ptr([r EXCEPT !.raw = rb.body, !.data = p.data]),
                         err |-> Nil,
                         res |-> consumed]
        ELSE IF res.hasBody THEN
            IF rb.err # Nil THEN
                [resp |-> Nil,
                 err |-> Error("HTTP " \o rq.method \o " " \o rq.path
                               \o " error reading response body: " \o ErrorText(rb.err)),
                 res |-> consumed]
            ELSE
                [resp |-> Ptr([r EXCEPT !.raw = rb.body,
                                        !.data = parseResponseBody(rb.res.stream).data,
                                        !.errorMessage = rb.body]),
                 err |-> Error("HTTP " \o rq.method \o " " \o rq.path \o ": "
                               \o Status(res.status)),
                 res |-> consumed]
        ELSE
            [resp |-> Ptr([r EXCEPT !.errorMessage = Status(res.status)]),
             err |-> Error("HTTP " \o rq.method \o " " \o rq.path \o ": "
                           \o Status(res.status)),
             res |-> res]

\* the headers the server sends with every response
ResponseHeader == {<<"Location", "/api/servers/7">>}

\* the *http.Response the http client hands to Do for a response outcome
\* (the http client always sets a non-nil Body); the test server of a replay
\* sends the recorded headers
httpResponse(o) ==
    [status |-> o.status, stream |-> o.body, readOK |-> o.readOK, hasBody |-> TRUE,
     header |-> IF testCase # Nil THEN Deref(testCase).RR.RespHeader ELSE ResponseHeader]

\* noAuthHeader.ReplaceAll on the request dump: the Authorization line is
\* replaced, every other header line is kept
hideAuth(h) ==
    IF HeaderHas(h, "Authorization")
    THEN HeaderSet(h, "Authorization", "Bearer <hidden>")
    ELSE h

----------------------------------------------------------------------------
(* http.go: client.Do *)

NoReq == [method |-> "", url |-> "", path |-> "", header |-> {}, body |-> ""]
NoDump == [header |-> {}, body |-> ""]
NoRet == [resp |-> Nil, err |-> Nil]

NoCall == [owner |-> "", method |-> "", uri |-> "", args |-> NilSlice,
           contentType |-> "", content |-> ""]
NoOut == [stdout |-> "", stderr |-> "", exit |-> -1]
NoNew == [fn |-> "", err |-> Nil]
NoRun == [harness |-> FALSE, rl10 |-> FALSE, host |-> "", key |-> "", record |-> "", href |-> "",
          action |-> "", arguments |-> NilSlice, envHost |-> "", envKey |-> "",
          file |-> [readable |-> FALSE, text |-> ""],
          x1 |-> "", xm |-> "", xj |-> "", xh |-> "", pretty |-> FALSE]

\* the zero RequestRecording and the zero MyRecording
NoRR == [Verb |-> "", Uri |-> "", ReqHeader |-> {}, ReqBody |-> "", Status |-> 0,
         RespHeader |-> {}, RespBody |-> ""]
NoRecording == [CmdArgs |-> <<>>, ExitCode |-> 0, Stdout |-> "", RR |-> NoRR]

\* the RequestRecording the client hands to its recorder for an exchange:
\* the verb, the URI, the request's headers and body, the response's status,
\* headers and body
RequestRecording(rq, res) ==
    [Verb |-> rq.method, Uri |-> rq.url, ReqHeader |-> rq.header, ReqBody |-> rq.body,
     Status |-> res.status, RespHeader |-> res.header, RespBody |-> res.stream]

\* http.Header.Del
HeaderDel(h, k) == {p \in h : p[1] # k}

\* main.go's recorder: what it stores in ReqResp.RR
recorder(rr) ==
    [rr EXCEPT
        !.ReqHeader = HeaderDel(HeaderDel(rr.ReqHeader, "Authorization"), "User-Agent"),
        !.RespHeader = HeaderDel(HeaderDel(HeaderDel(HeaderDel(HeaderDel(rr.RespHeader,
                           "Cache-Control"), "Connection"), "Set-Cookie"),
                           "Strict-Transport-Security"), "X-Request-Uuid")]

\* what c.cl.Do(req) can be answered with: anything from a live server, the
\* recorded status and body from the test server of a replay
Answers(path) ==
    IF testCase # Nil THEN
        {[kind |-> "response", status |-> Deref(testCase).RR.Status,
          body |-> Deref(testCase).RR.RespBody, readOK |-> TRUE]}
    ELSE HTTPResponses(path)

\* no queryStringArgs call is under way
IdleFn ==
    /\ qsArgs = <<>> /\ qs = "" /\ qspc = "idle"
    /\ argv = <<>> /\ captured = <<>> /\ cpc = "idle"

\* a Do call starts: the state of its locals before the first statement
BeginDo(cl, method, uri, args, contentType, content) ==
    /\ c' = cl
    /\ call' = [method |-> method, uri |-> uri, args |-> args,
                contentType |-> contentType, content |-> content]
    /\ req' = NoReq
    /\ dump' = NoDump
    /\ reqBody' = ""
    /\ wire' = <<>>
    /\ try' = 0
    /\ attempts' = 0
    /\ responses' = 0
    /\ last' = NoOutcome
    /\ log' = <<>>
    /\ ret' = NoRet
    /\ classified' = NoRet
    /\ recording' = recording
    /\ dpc' = "call"

\* the URL Do requests
doURL(cl, uri, args) ==
    IF ~args.isNil THEN makeURL(cl, uri) \o "?" \o Join(args.elems, "&")
    ELSE makeURL(cl, uri)

\* Do up to the loop: the URL, http.NewRequest, the headers, the dump
DoPrepare ==
    /\ UNCHANGED <<fnVars, recVars>>
    /\ dpc = "call"
    /\ LET uri == doURL(c, call.uri, call.args)
           h0 == setHeaders(c, {})
           h == IF call.contentType # "" THEN HeaderSet(h0, "Content-Type", call.contentType)
                ELSE h0
       IN  IF urlParse(uri) # Nil THEN
               /\ ret' = [resp |-> Nil, err |-> urlParse(uri)]
               /\ dpc' = "returned"
               /\ UNCHANGED <<req, dump, try, reqBody>>
           ELSE
               /\ req' = [method |-> call.method, url |-> uri, path |-> urlPath(call.uri),
                          header |-> h, body |-> call.content]
               /\ dump' = [header |-> hideAuth(h), body |-> call.content]
               /\ reqBody' = call.content
               /\ try' = 1
               /\ dpc' = "loop"
               /\ UNCHANGED ret
    /\ UNCHANGED <<c, call, attempts, responses, last, log, classified, recording, wire>>
    /\ UNCHANGED cmdVars

\* the request a c.cl.Do(req) call writes: the method, the URL and the headers
\* of req, and as its body what it reads from req.Body
Written(rq, body) == [method |-> rq.method, url |-> rq.url, header |-> rq.header, body |-> body]

\* one iteration of the loop in which c.cl.Do(req) returns an error:
\* `continue`, without counting the try. The transport failed before it
\* wrote the request (req.Body is as it was) or after it (req.Body is read to
\* its end).
DoTransportError ==
    /\ UNCHANGED <<fnVars, recVars>>
    /\ dpc = "loop"
    /\ attempts - responses < MaxTransportErrors
    /\ \/ UNCHANGED <<reqBody, wire>>
       \/ /\ reqBody # ""
          /\ wire' = Append(wire, Written(req, reqBody))
          /\ reqBody' = ""
    /\ attempts' = attempts + 1
    /\ last' = TransportError
    /\ log' = Append(log, LogEntry(TransportError))
    /\ UNCHANGED <<c, call, req, dump, try, responses, ret, classified, recording, dpc>>
    /\ UNCHANGED cmdVars

\* the iteration with the ceiling off by one (try > 3)
doIteration_CeilingOffByOne(cl, rq, dmp, t, o) ==
    LET pr == processResponse(rq, httpResponse(o))
    IN  IF pr.resp = Nil THEN
            [next |-> "panicked", ret |-> NoRet, rec |-> <<>>,
             pr |-> [resp |-> pr.resp, err |-> pr.err]]
        ELSE IF Deref(pr.resp).statusCode < 500 \/ t > 3 THEN
            [next |-> "returned",
             ret |-> [resp |-> pr.resp, err |-> pr.err],
             pr |-> [resp |-> pr.resp, err |-> pr.err],
             rec |-> IF cl.recorder
                     THEN <<[method |-> rq.method, uri |-> rq.url, dump |-> dmp,
                             respBody |-> readBody(pr.res).body]>>
                     ELSE <<>>]
        ELSE [next |-> "loop", ret |-> NoRet, rec |-> <<>>,
              pr |-> [resp |-> pr.resp, err |-> pr.err]]

\* what one iteration does with a response: the result of processResponse,
\* then resp.statusCode is read (a nil resp panics), then return or retry
doIteration(cl, rq, dmp, t, o) ==
    LET pr == processResponse(rq, httpResponse(o))
    IN  IF pr.resp = Nil THEN
            [next |-> "panicked", ret |-> NoRet, rec |-> <<>>,
             pr |-> [resp |-> pr.resp, err |-> pr.err]]
        ELSE IF Deref(pr.resp).statusCode < 500 \/ t >= 3 THEN
            [next |-> "returned",
             ret |-> [resp |-> pr.resp, err |-> pr.err],
             pr |-> [resp |-> pr.resp, err |-> pr.err],
             rec |-> IF cl.recorder
                     THEN <<[method |-> rq.method, uri |-> rq.url, dump |-> dmp,
                             respBody |-> readBody(pr.res).body]>>
                     ELSE <<>>]
        ELSE [next |-> "loop", ret |-> NoRet, rec |-> <<>>,
              pr |-> [resp |-> pr.resp, err |-> pr.err]]

\* one iteration of the loop in which c.cl.Do(req) returns a response: the
\* transport wrote the request, reading req.Body to its end
DoResponse ==
    /\ UNCHANGED <<fnVars, recordFile, testCase>>
    /\ dpc = "loop"
    /\ wire' = Append(wire, Written(req, reqBody))
    /\ reqBody' = ""
    /\ \E o \in Answers(req.path) :
          LET it == doIteration(c, req, dump, try, o)
          IN  /\ ReqResp' = IF it.rec # <<>>
                            THEN [ReqResp EXCEPT
                                     !.RR = recorder(RequestRecording(req, httpResponse(o)))]
                            ELSE ReqResp
              /\ attempts' = attempts + 1
              /\ responses' = responses + 1
              /\ last' = o
              /\ log' = Append(log, LogEntry(o))
              /\ dpc' = it.next
              /\ ret' = it.ret
              /\ classified' = it.pr
              /\ recording' = recording \o it.rec
              /\ try' = IF it.next = "loop" THEN try + 1 ELSE try
    /\ UNCHANGED <<c, call, req, dump>>
    /\ UNCHANGED cmdVars

----------------------------------------------------------------------------
(* http.go: queryStringArgs *)

\* the characters url.QueryEscape leaves as they are
Unreserved ==
    {"0", "1", "2", "3", "4", "5", "6", "7", "8", "9",
     "a", "b", "c", "d", "e", "f", "g", "h", "i", "j", "k", "l", "m",
     "n", "o", "p", "q", "r", "s", "t", "u", "v", "w", "x", "y", "z",
     "A", "B", "C", "D", "E", "F", "G", "H", "I", "J", "K", "L", "M",
     "N", "O", "P", "Q", "R", "S", "T", "U", "V", "W", "X", "Y", "Z",
     "-", "_", ".", "~"}

\* the %XX escapes of the other characters that occur in arguments
PercentCodes ==
    {<<"%", "%25">>, <<"&", "%26">>, <<"+", "%2B">>, <<"/", "%2F">>, <<"=", "%3D">>,
     <<"[", "%5B">>, <<"]", "%5D">>, <<"\n", "%0A">>}

escapeChar(ch) ==
    IF ch \in Unreserved THEN ch
    ELSE IF ch = " " THEN "+"
    ELSE (CHOOSE e \in PercentCodes : e[1] = ch)[2]

\* url.QueryEscape
RECURSIVE QueryEscape(_)
QueryEscape(s) ==
    IF s = "" THEN "" ELSE escapeChar(SubSeq(s, 1, 1)) \o QueryEscape(SubSeq(s, 2, Len(s)))

\* url.QueryUnescape (of a string with well-formed escapes)
RECURSIVE QueryUnescape(_)
QueryUnescape(s) ==
    IF s = "" THEN ""
    ELSE IF SubSeq(s, 1, 1) = "+" THEN " " \o QueryUnescape(SubSeq(s, 2, Len(s)))
    ELSE IF SubSeq(s, 1, 1) = "%" /\ Len(s) >= 3
            /\ \E e \in PercentCodes : e[2] = SubSeq(s, 1, 3)
         THEN (CHOOSE e \in PercentCodes : e[2] = SubSeq(s, 1, 3))[1]
                  \o QueryUnescape(SubSeq(s, 4, Len(s)))
    ELSE SubSeq(s, 1, 1) \o QueryUnescape(SubSeq(s, 2, Len(s)))

\* the values an args map holds: a string, a []string, or something else
QString(s) == [t |-> "string", s |-> s, l |-> <<>>]
QList(l) == [t |-> "[]string", s |-> "", l |-> l]
QOther == [t |-> "int", s |-> "", l |-> <<>>]

\* the inner loop of queryStringArgs over a []string value
RECURSIVE qsList(_, _, _, _)
qsList(acc, conn, k, l) ==
    IF Len(l) = 0 THEN acc
    ELSE qsList(acc \o conn \o QueryEscape(k) \o "=" \o QueryEscape(Head(l)), conn, k, Tail(l))

\* queryStringArgs from the entry the range loop has reached: entries is what
\* is left of the map in iteration order, acc is qs
RECURSIVE qsLoop(_, _, _)
qsLoop(acc, conn, entries) ==
    IF Len(entries) = 0 THEN [qs |-> acc, exit |-> -1]
    ELSE LET k == Head(entries)[1]
             v == Head(entries)[2]
         IN  IF v.t = "string" THEN
                 qsLoop(acc \o conn \o QueryEscape(k) \o "=" \o QueryEscape(v.s), "&",
                        Tail(entries))
             ELSE IF v.t = "[]string" THEN
                 qsLoop(qsList(acc, conn, k, v.l), "&", Tail(entries))
             ELSE [qs |-> "", exit |-> 1]

\* queryStringArgs(args)
queryStringArgs(entries) == qsLoop("", "", entries)

\* a call of queryStringArgs
QueryStringArgsCall ==
    /\ qspc = "call"
    /\ qs' = queryStringArgs(qsArgs).qs
    /\ qspc' = IF queryStringArgs(qsArgs).exit = 1 THEN "exited" ELSE "returned"
    /\ UNCHANGED <<qsArgs, argv, captured, cpc, doVars, cmdVars, recVars>>

----------------------------------------------------------------------------
(* regexp matching, as far as the patterns of the program need it *)

Digits == {"0", "1", "2", "3", "4", "5", "6", "7", "8", "9"}
LowerCase == {"a", "b", "c", "d", "e", "f", "g", "h", "i", "j", "k", "l", "m",
              "n", "o", "p", "q", "r", "s", "t", "u", "v", "w", "x", "y", "z"}
UpperCase == {"A", "B", "C", "D", "E", "F", "G", "H", "I", "J", "K", "L", "M",
              "N", "O", "P", "Q", "R", "S", "T", "U", "V", "W", "X", "Y", "Z"}

CharAt(s, i) == SubSeq(s, i, i)

\* the length of the longest run of characters of class cls starting at i
RECURSIVE RunLen(_, _, _)
RunLen(s, i, cls) ==
    IF i > Len(s) \/ CharAt(s, i) \notin cls THEN 0 ELSE 1 + RunLen(s, i + 1, cls)

\* the length of the run of characters other than stop that starts at i
RECURSIVE RunUntil(_, _, _)
RunUntil(s, i, stop) ==
    IF i > Len(s) \/ CharAt(s, i) = stop THEN 0 ELSE 1 + RunUntil(s, i + 1, stop)

\* the literal lit stands at position i of s
MatchAt(s, i, lit) == i + Len(lit) - 1 <= Len(s) /\ SubSeq(s, i, i + Len(lit) - 1) = lit

Least(S) == CHOOSE i \in S : \A j \in S : i <= j

\* FindSubmatch for a pattern lit(cls+): nil, or the match and its group
FindLitRun(s, lit, cls) ==
    LET starts == {i \in 1..Len(s) : MatchAt(s, i, lit) /\ RunLen(s, i + Len(lit), cls) > 0}
    IN  IF starts = {} THEN <<>>
        ELSE LET i == Least(starts)
                 g == i + Len(lit)
                 n == RunLen(s, g, cls)
             IN  <<SubSeq(s, i, g + n - 1), SubSeq(s, g, g + n - 1)>>

\* reRllPort = `RS_RLL_PORT=(\d+)`
reRllPort(s) == FindLitRun(s, "RS_RLL_PORT=", Digits)

\* reRllSecret = `RS_RLL_SECRET=([A-Za-z0-9]+)`
reRllSecret(s) == FindLitRun(s, "RS_RLL_SECRET=", LowerCase \cup UpperCase \cup Digits)

\* reWhere = `([-A-Za-z0-9.]+):([0-9]+)`: nil, or the match and its two groups
reWhere(s) ==
    LET hostChars == LowerCase \cup UpperCase \cup Digits \cup {"-", "."}
        ok(i) == LET n == RunLen(s, i, hostChars)
                 IN  n > 0 /\ MatchAt(s, i + n, ":") /\ RunLen(s, i + n + 1, Digits) > 0
        starts == {i \in 1..Len(s) : ok(i)}
    IN  IF starts = {} THEN <<>>
        ELSE LET i == Least(starts)
                 n == RunLen(s, i, hostChars)
                 d == RunLen(s, i + n + 1, Digits)
             IN  <<SubSeq(s, i, i + n + d), SubSeq(s, i, i + n - 1),
                   SubSeq(s, i + n + 1, i + n + d)>>

WordChars == LowerCase \cup UpperCase \cup Digits \cup {"_"}

\* (/[A-Za-z0-9_]+)+$ matches s from position j to its end
RECURSIVE SegmentsToEnd(_, _)
SegmentsToEnd(s, j) ==
    LET n == RunLen(s, j + 1, WordChars)
    IN  /\ MatchAt(s, j, "/")
        /\ n > 0
        /\ (j + n = Len(s) \/ SegmentsToEnd(s, j + 1 + n))

\* the start of the last /segment of s
RECURSIVE LastSlash(_, _)
LastSlash(s, i) == IF CharAt(s, i) = "/" THEN i ELSE LastSlash(s, i - 1)

\* reResourceHref = `^([a-z0-9_]+)|(/(api|rll)(/[A-Za-z0-9_]+)+)$`: the pattern
\* is an alternation of `^([a-z0-9_]+)` and `(/(api|rll)(/[A-Za-z0-9_]+)+)$`;
\* FindStringSubmatch gives nil, or the match and its four groups
reResourceHref(s) ==
    LET n1 == RunLen(s, 1, LowerCase \cup Digits \cup {"_"})
        alt2(i) == (MatchAt(s, i, "/api") \/ MatchAt(s, i, "/rll")) /\ SegmentsToEnd(s, i + 4)
        starts == {i \in 1..Len(s) : alt2(i)}
    IN  IF n1 > 0 THEN <<SubSeq(s, 1, n1), SubSeq(s, 1, n1), "", "", "">>
        ELSE IF starts = {} THEN <<>>
        ELSE LET i == Least(starts)
             IN  <<SubSeq(s, i, Len(s)), "", SubSeq(s, i, Len(s)), SubSeq(s, i + 1, i + 3),
                   SubSeq(s, LastSlash(s, Len(s)), Len(s))>>

----------------------------------------------------------------------------
(* http.go: the constructors *)

rllSecretPath == "/var/run/rll-secret"

Client(httpServer, apiKey, proxySecret) ==
    [httpServer |-> httpServer, account |-> "", authToken |-> "", apiKey |-> apiKey,
     proxySecret |-> proxySecret, apiVersion |-> "1.5", recorder |-> FALSE]

\* NewProxyClient(proxyHost, secret, debug), file being what ioutil.ReadFile
\* finds at rllSecretPath
NewProxyClient(proxyHost, secret, file) ==
    LET p == reRllPort(file.text)
        s == reRllSecret(file.text)
        fromFile ==
            IF ~(proxyHost = "" \/ secret = "") THEN
                [err |-> Nil, host |-> "", port |-> "", secret |-> ""]
            ELSE IF ~file.readable THEN
                [err |-> Error("reading proxy secret file: open " \o rllSecretPath
                               \o ": no such file or directory"),
                 host |-> "", port |-> "", secret |-> ""]
            ELSE IF Len(p) # 1 THEN
                [err |-> Error("Cannot find or parse RS_RLL_PORT in " \o rllSecretPath),
                 host |-> "", port |-> "", secret |-> ""]
            ELSE IF Len(s) # 1 THEN
                [err |-> Error("Cannot find or parse RS_RLL_SECRET in " \o rllSecretPath),
                 host |-> "", port |-> p[1], secret |-> ""]
            ELSE [err |-> Nil, host |-> "localhost", port |-> p[1], secret |-> s[1]]
        m == reWhere(proxyHost)
        explicit == proxyHost # "" /\ Len(m) = 3
        rllHost == IF explicit THEN m[2] ELSE fromFile.host
        rllPort == IF explicit THEN m[3] ELSE fromFile.port
        rllSecret == IF secret # "" THEN secret ELSE fromFile.secret
    IN  IF fromFile.err # Nil THEN [client |-> Nil, err |-> fromFile.err]
        ELSE [client |-> Ptr(Client("http://" \o rllHost \o ":" \o rllPort, "", rllSecret)),
              err |-> Nil]

\* NewDirectClient up to its call of c.authenticate(): the client struct
newDirectClient(httpServer, apiKey) ==
    Client(IF ~HasPrefix(httpServer, "https:") THEN "https://" \o httpServer ELSE httpServer,
           apiKey, "")

\* the arguments of authenticate's Do call
oauthArgs(cl) == Slice(<<"grant_type=refresh_token", "refresh_token=" \o cl.apiKey>>)

\* d[key].(string) on a decoded value: the string and whether d is a map that
\* holds a string under key
stringMember(d, key) ==
    IF d.t = "object" /\ key \in DOMAIN d.m /\ d.m[key].t = "string"
    THEN [ok |-> TRUE, s |-> d.m[key].s]
    ELSE [ok |-> FALSE, s |-> ""]

\* client.authenticate from the return of its Do call: the error it returns
\* and the client as it leaves it
authenticate(cl, r) ==
    IF r.err # Nil THEN
        LET descr == IF r.resp # Nil /\ Deref(r.resp).data.t # "nil"
                     THEN stringMember(Deref(r.resp).data, "error_description")
                     ELSE [ok |-> FALSE, s |-> ""]
            msg == ErrorText(r.err) \o (IF descr.ok THEN " \"" \o descr.s \o "\"" ELSE "")
        IN  [err |-> Error("OAuth failed: " \o msg), client |-> cl]
    ELSE
        LET resp == Deref(r.resp)
            tok == stringMember(resp.data, "access_token")
        IN  IF ~(resp.data.t = "object") \/ DOMAIN resp.data.m = {} THEN
                [err |-> Error("Invalid oauth response: <<" \o resp.raw \o ">>"),
                 client |-> cl]
            ELSE IF ~tok.ok THEN
                [err |-> Error("Oauth response doesn't have access token: "
                               \o goSprint(resp.data)),
                 client |-> [cl EXCEPT !.authToken = ""]]
            ELSE [err |-> Nil, client |-> [cl EXCEPT !.authToken = tok.s]]

----------------------------------------------------------------------------
(* main.go *)

\* kingpin.Fatalf: the message, and os.Exit(1)
Fatal(msg) ==
    /\ pc' = "fatal"
    /\ out' = [stdout |-> "", stderr |-> msg, exit |-> 1]

\* the message of kingpin.FatalIfError(err, format) for a non-nil err
fatalMessage(err, format) ==
    IF format # "" THEN format \o ": " \o ErrorText(err) ELSE ErrorText(err)

\* rightscale() without the test for the cached handle
rightscaleCached_Never(rs) == FALSE

\* the test of rightscale() for the cached handle
rightscaleCached(rs) == rs # Nil

\* client.RecordHttp, called by rightscale() when --record is given
RecordHttp(cl, file) == [cl EXCEPT !.recorder = (file # "")]

\* rightscale().Do(method, uri, args, contentType, content) called from the
\* place `owner` of main.go: rightscale() up to the first HTTP exchange of the
\* Do call it leads to (that of authenticate when a direct client is built)
RightscaleDo(owner, method, uri, args, contentType, content) ==
    IF rightscaleCached(rsClientInternal) THEN
        /\ BeginDo(Deref(rsClientInternal), method, uri, args, contentType, content)
        /\ pc' = owner
        /\ UNCHANGED <<rsClientInternal, pending, out, builds, authCalls, lastNew>>
    ELSE IF os.rl10 THEN
        LET r == NewProxyClient(os.host, os.key, os.file)
        IN  /\ lastNew' = [fn |-> "NewProxyClient", err |-> r.err]
            /\ UNCHANGED <<pending, authCalls>>
            /\ IF r.err # Nil THEN
                   /\ rsClientInternal' = Nil
                   /\ Fatal(fatalMessage(r.err, ""))
                   /\ UNCHANGED <<doVars, builds>>
               ELSE
                   /\ rsClientInternal' = Ptr(RecordHttp(Deref(r.client), os.record))
                   /\ builds' = builds + 1
                   /\ BeginDo(RecordHttp(Deref(r.client), os.record),
                              method, uri, args, contentType, content)
                   /\ pc' = owner
                   /\ UNCHANGED out
    ELSE
        LET h == IF os.host = "" THEN os.envHost ELSE os.host
            k == IF os.key = "" THEN os.envKey ELSE os.key
            c0 == newDirectClient(h, k)
        IN  /\ BeginDo(c0, "POST", "/api/oauth2", oauthArgs(c0), "", "")
            /\ pending' = [owner |-> owner, method |-> method, uri |-> uri, args |-> args,
                           contentType |-> contentType, content |-> content]
            /\ pc' = "authenticate"
            /\ builds' = builds + 1
            /\ authCalls' = authCalls + 1
            /\ lastNew' = [fn |-> "NewDirectClient", err |-> Nil]
            /\ UNCHANGED <<rsClientInternal, out>>

\* authenticate's Do call returned: the rest of authenticate, of
\* NewDirectClient and of rightscale(), then the Do call rightscale() was
\* called for
AuthenticateReturn ==
    /\ UNCHANGED <<fnVars, warned, recVars>>
    /\ pc = "authenticate"
    /\ dpc = "returned"
    /\ LET a == authenticate(c, ret)
       IN  IF a.err # Nil THEN
               /\ rsClientInternal' = Nil
               /\ lastNew' = [fn |-> "NewDirectClient", err |-> a.err]
               /\ Fatal(fatalMessage(a.err, ""))
               /\ UNCHANGED <<doVars, pending>>
           ELSE
               /\ rsClientInternal' = Ptr(RecordHttp(a.client, os.record))
               /\ lastNew' = [fn |-> "NewDirectClient", err |-> Nil]
               /\ BeginDo(RecordHttp(a.client, os.record), pending.method, pending.uri,
                          pending.args, pending.contentType, pending.content)
               /\ pc' = pending.owner
               /\ pending' = NoCall
               /\ UNCHANGED out
    /\ UNCHANGED <<os, resourceHref, builds, authCalls>>

\* crudActions
crudActions(action) ==
    CASE action \in {"index", "show", "list"} -> "GET"
      [] action \in {"update", "create"} -> "POST"
      [] action = "destroy" -> "DELETE"
      [] OTHER -> ""

\* exceptionActions: the URI suffix and the verb, or nil
exceptionActions(action) ==
    CASE action = "accounts" -> <<"/accounts", "GET">>
      [] action = "current_instances" -> <<"/current_instances", "GET">>
      [] action = "data" -> <<"/data", "GET">>
      [] action = "detail" -> <<"/detail", "GET">>
      [] action = "multi_update" -> <<"/multi_update", "PUT">>
      [] action = "servers" -> <<"/servers", "GET">>
      [] action = "show_source" -> <<"/source", "GET">>
      [] action = "update_source" -> <<"/source", "PUT">>
      [] OTHER -> <<>>

\* doRequest without its table of exceptions
requestTarget_NoExceptions(href, action) ==
    IF crudActions(action) # "" THEN [method |-> crudActions(action), uri |-> href]
    ELSE [method |-> "POST", uri |-> href \o "/" \o action]

\* doRequest: the verb and the URI of the request
requestTarget(href, action) ==
    IF crudActions(action) # "" THEN [method |-> crudActions(action), uri |-> href]
    ELSE IF exceptionActions(action) # <<>> THEN
        [method |-> exceptionActions(action)[2], uri |-> href \o exceptionActions(action)[1]]
    ELSE [method |-> "POST", uri |-> href \o "/" \o action]

\* main's count of the extraction flags given
xFlags(o) ==
    (IF o.x1 # "" THEN 1 ELSE 0) + (IF o.xm # "" THEN 1 ELSE 0)
        + (IF o.xj # "" THEN 1 ELSE 0) + (IF o.xh # "" THEN 1 ELSE 0)

\* main's selectExpr
selectExpr(o) == IF o.xj # "" THEN o.xj ELSE IF o.xm # "" THEN o.xm ELSE o.x1

\* reArgument = `^([a-zA-Z0-9_\[\]]+)=(.*)`: nil, or the match and its two
\* groups (`.` matches no newline and the pattern has no `$`: the match ends
\* before the first newline of the value)
reArgument(a) ==
    LET k == RunLen(a, 1, WordChars \cup {"[", "]"})
        v == RunUntil(a, k + 2, "\n")
    IN  IF k = 0 \/ ~MatchAt(a, k + 1, "=") THEN <<>>
        ELSE <<SubSeq(a, 1, k + 1 + v), SubSeq(a, 1, k), SubSeq(a, k + 2, k + 1 + v)>>

\* doRequest's loop over the arguments: the first argument that is not
\* valid, or the arguments with their values query-escaped
RECURSIVE encodeArguments(_)
encodeArguments(args) ==
    IF args = <<>> THEN [invalid |-> Nil, args |-> <<>>]
    ELSE LET m == reArgument(Head(args))
             rest == encodeArguments(Tail(args))
         IN  IF m = <<>> THEN [invalid |-> Ptr(Head(args)), args |-> <<>>]
             ELSE [invalid |-> rest.invalid,
                   args |-> <<m[2] \o "=" \o QueryEscape(m[3])>> \o rest.args]

\* main from the resolved href to the first HTTP exchange of doRequest
RequestPhase(href) ==
    LET action == IF os.action = "list" THEN "index" ELSE os.action
        t == requestTarget(href, action)
        enc == encodeArguments(os.arguments.elems)
    IN  /\ resourceHref' = href
        /\ IF xFlags(os) > 1 THEN
               /\ Fatal("cannot specify --x1 and --xm at the same time")
               /\ UNCHANGED <<doVars, rsClientInternal, pending, builds, authCalls, lastNew>>
           ELSE IF enc.invalid # Nil THEN
               /\ Fatal("argument '" \o Deref(enc.invalid) \o "' is not valid")
               /\ UNCHANGED <<doVars, rsClientInternal, pending, builds, authCalls, lastNew>>
           ELSE RightscaleDo("doRequest", t.method, t.uri,
                             [os.arguments EXCEPT !.elems = enc.args], "", "")

\* os.Args[1:] of a run started from a shell: the flags in the form
\* `--flag value`, then the action, the resource href and the parameters
CommandLine(o) ==
    (IF o.rl10 THEN <<"--rl10">> ELSE <<>>)
        \o (IF o.host # "" THEN <<"--host", o.host>> ELSE <<>>)
        \o (IF o.key # "" THEN <<"--key", o.key>> ELSE <<>>)
        \o (IF o.record # "" THEN <<"--record", o.record>> ELSE <<>>)
        \o (IF o.pretty THEN <<"--pretty">> ELSE <<>>)
        \o (IF o.x1 # "" THEN <<"--x1", o.x1>> ELSE <<>>)
        \o (IF o.xm # "" THEN <<"--xm", o.xm>> ELSE <<>>)
        \o (IF o.xj # "" THEN <<"--xj", o.xj>> ELSE <<>>)
        \o (IF o.xh # "" THEN <<"--xh", o.xh>> ELSE <<>>)
        \o <<o.action, o.href>> \o o.arguments.elems

\* the loop of captureCmdArgs over the arguments left
RECURSIVE captureLoop(_, _)
captureLoop(args, skipArg) ==
    IF args = <<>> THEN <<>>
    ELSE IF skipArg THEN captureLoop(Tail(args), FALSE)
    ELSE IF Head(args) = "--record" THEN captureLoop(Tail(args), TRUE)
    ELSE IF Head(args) = "--host" THEN captureLoop(Tail(args), TRUE)
    ELSE IF Head(args) = "--key" THEN
        <<Head(args), "test-key">> \o captureLoop(Tail(args), TRUE)
    ELSE <<Head(args)>> \o captureLoop(Tail(args), FALSE)

\* captureCmdArgs
captureCmdArgs(args) == captureLoop(args, FALSE)

\* the address of the test server of recording_test.go
TestServer == "127.0.0.1:4001"

\* os.Args[1:] as recording_test.go sets it for a test case
harnessArgs(tc) == <<"--rl10", "--host", TestServer>> \o tc.CmdArgs

\* the flags of initKingpin that take a value
ValueFlags == {"--host", "--key", "--record", "--x1", "--xm", "--xj", "--xh"}

\* app.Parse on arguments in the form `--flag value`: o holds the values
\* parsed so far, n is the number of positional arguments seen (a flag given
\* again is taken to set its value again)
RECURSIVE kingpinParse(_, _, _)
kingpinParse(args, o, n) ==
    IF args = <<>> THEN o
    ELSE LET a == Head(args)
             rest == Tail(args)
         IN  IF a = "--rl10" THEN kingpinParse(rest, [o EXCEPT !.rl10 = TRUE], n)
             ELSE IF a = "--pretty" THEN kingpinParse(rest, [o EXCEPT !.pretty = TRUE], n)
             ELSE IF a \in ValueFlags /\ rest # <<>> THEN
                 LET v == Head(rest)
                 IN  kingpinParse(Tail(rest),
                         CASE a = "--host" -> [o EXCEPT !.host = v]
                           [] a = "--key" -> [o EXCEPT !.key = v]
                           [] a = "--record" -> [o EXCEPT !.record = v]
                           [] a = "--x1" -> [o EXCEPT !.x1 = v]
                           [] a = "--xm" -> [o EXCEPT !.xm = v]
                           [] a = "--xj" -> [o EXCEPT !.xj = v]
                           [] a = "--xh" -> [o EXCEPT !.xh = v], n)
             ELSE IF n = 0 THEN kingpinParse(rest, [o EXCEPT !.action = a], 1)
             ELSE IF n = 1 THEN kingpinParse(rest, [o EXCEPT !.href = a], 2)
             ELSE kingpinParse(rest,
                      [o EXCEPT !.arguments = Slice(Append(o.arguments.elems, a))], n + 1)

\* os.Args[1:] of the run under way
osArgs == IF testCase # Nil THEN harnessArgs(Deref(testCase)) ELSE CommandLine(os)

\* main up to the first HTTP exchange
MainStart ==
    /\ UNCHANGED <<fnVars, warned, recordFile, testCase>>
    /\ ReqResp' = [ReqResp EXCEPT !.CmdArgs = captureCmdArgs(osArgs)]
    /\ pc = "main"
    /\ IF os.href = "self" THEN
           IF ~os.rl10 THEN
               /\ Fatal("Cannot retrieve self-href when not using RightLink proxy")
               /\ UNCHANGED <<doVars, rsClientInternal, pending, resourceHref, builds,
                              authCalls, lastNew>>
           ELSE
               /\ RightscaleDo("getSelfEnv", "GET", "/rll/env", NilSlice, "", "")
               /\ UNCHANGED resourceHref
       ELSE
           LET m == reResourceHref(os.href)
           IN  IF m = <<>> THEN
                   /\ Fatal("resourceHref '" \o os.href \o "' is not valid")
                   /\ UNCHANGED <<doVars, rsClientInternal, pending, resourceHref, builds,
                                  authCalls, lastNew>>
               ELSE IF m[2] # "" THEN RequestPhase("/api/" \o m[2])
               ELSE RequestPhase(os.href)
    /\ UNCHANGED os

\* jsonq Query.String(key): the string under key, or an error
jqString(d, key) == stringMember(d, key)

\* findRel
RECURSIVE findRelIn(_, _)
findRelIn(rel, links) ==
    IF Len(links) = 0 THEN ""
    ELSE IF stringMember(Head(links), "rel").ok /\ stringMember(Head(links), "rel").s = rel
            /\ stringMember(Head(links), "href").ok
         THEN stringMember(Head(links), "href").s
    ELSE findRelIn(rel, Tail(links))

findRel(rel, data) ==
    IF ~("links" \in DOMAIN data.m) \/ data.m["links"].t # "array" THEN ""
    ELSE IF \E i \in 1..Len(data.m["links"].a) : data.m["links"].a[i].t # "object" THEN ""
    ELSE findRelIn(rel, data.m["links"].a)

\* getSelfHref without its test of what the proxy holds
selfHrefFound_Never(href) == FALSE

\* getSelfHref's test of the RS_SELF_HREF the proxy answered: err == nil && href != ""
selfHrefFound(href) == href.ok /\ href.s # ""

\* getSelfHref after GET /rll/env returned
SelfEnvReturn ==
    /\ UNCHANGED <<fnVars, warned, recVars>>
    /\ pc = "getSelfEnv"
    /\ dpc = "returned"
    /\ IF ret.err # Nil THEN
           /\ Fatal(fatalMessage(ret.err, "fetching self_href"))
           /\ UNCHANGED <<doVars, rsClientInternal, pending, resourceHref, builds,
                          authCalls, lastNew>>
       ELSE
           LET href == jqString(Deref(ret.resp).data, "RS_SELF_HREF")
           IN  IF selfHrefFound(href) THEN RequestPhase(href.s)
               ELSE /\ RightscaleDo("getSelfInstance", "GET", "/api/session/instance",
                                    NilSlice, "", "")
                    /\ UNCHANGED resourceHref
    /\ UNCHANGED os

\* getSelfHref after GET /api/session/instance returned
SelfInstanceReturn ==
    /\ UNCHANGED <<fnVars, warned, recVars>>
    /\ pc = "getSelfInstance"
    /\ dpc = "returned"
    /\ LET data == Deref(ret.resp).data
           href == IF ret.resp # Nil /\ data.t = "object" THEN findRel("self", data) ELSE ""
       IN  IF ret.err # Nil THEN
               /\ Fatal(fatalMessage(ret.err, "fetching instance from RS"))
               /\ UNCHANGED <<doVars, rsClientInternal, pending, resourceHref, builds,
                              authCalls, lastNew>>
           ELSE IF href = "" THEN
               /\ Fatal("extracting self-href from " \o goSprint(data)
                        \o " <<" \o Deref(ret.resp).raw \o ">>")
               /\ UNCHANGED <<doVars, rsClientInternal, pending, resourceHref, builds,
                              authCalls, lastNew>>
           ELSE
               /\ RightscaleDo("getSelfPut", "PUT", "/rll/env/RS_SELF_HREF", NilSlice,
                               "text/plain", href)
               /\ resourceHref' = href
    /\ UNCHANGED os

\* getSelfHref after PUT /rll/env/RS_SELF_HREF returned: an error is a
\* warning, and main goes on with the href
SelfPutReturn ==
    /\ UNCHANGED <<fnVars, recVars>>
    /\ pc = "getSelfPut"
    /\ dpc = "returned"
    /\ warned' = IF ret.err # Nil
                 THEN warned \o "Warning: cannot set RS_SELF_HREF in RLL: "
                          \o ErrorText(ret.err) \o "\n"
                 ELSE warned
    /\ RequestPhase(resourceHref)
    /\ UNCHANGED os

\* json.Indent(js, "", "  ") of the encoding of a value
RECURSIVE jsonIndent(_, _)
RECURSIVE indentMembers(_, _, _, _)
RECURSIVE indentElements(_, _, _)
indentMembers(m, i, sep, ind) ==
    IF i > Len(KeyOrder) THEN ""
    ELSE IF KeyOrder[i] \in DOMAIN m THEN
        sep \o "\n" \o ind \o "\"" \o KeyOrder[i] \o "\": " \o jsonIndent(m[KeyOrder[i]], ind)
            \o indentMembers(m, i + 1, ",", ind)
    ELSE indentMembers(m, i + 1, sep, ind)
indentElements(a, sep, ind) ==
    IF Len(a) = 0 THEN ""
    ELSE sep \o "\n" \o ind \o jsonIndent(Head(a), ind) \o indentElements(Tail(a), ",", ind)
jsonIndent(v, ind) ==
    CASE v.t = "object" /\ DOMAIN v.m # {} ->
            "{" \o indentMembers(v.m, 1, "", ind \o "  ") \o "\n" \o ind \o "}"
      [] v.t = "array" /\ Len(v.a) > 0 ->
            "[" \o indentElements(v.a, "", ind \o "  ") \o "\n" \o ind \o "]"
      [] OTHER -> jsonMarshal(v)

\* the values a response body can decode to
DecodedValues == {jsonDecode(b).data : b \in {r \in ResourceBodies : jsonDecode(r).err = ""}}

\* the value a JSON text stands for (the text being the encoding of a value)
jsonParse(js) == CHOOSE v \in DecodedValues : jsonMarshal(v) = js

\* jsonselect: the nodes below v (v's members and elements, theirs, and so on,
\* in document order) that are the member `key` of an object
RECURSIVE selectKey(_, _)
RECURSIVE selectInMembers(_, _, _)
RECURSIVE selectInElements(_, _)
selectInMembers(m, i, key) ==
    IF i > Len(KeyOrder) THEN <<>>
    ELSE IF KeyOrder[i] \in DOMAIN m THEN
        (IF KeyOrder[i] = key THEN <<m[KeyOrder[i]]>> ELSE <<>>)
            \o selectKey(m[KeyOrder[i]], key) \o selectInMembers(m, i + 1, key)
    ELSE selectInMembers(m, i + 1, key)
selectInElements(a, key) ==
    IF Len(a) = 0 THEN <<>> ELSE selectKey(Head(a), key) \o selectInElements(Tail(a), key)
selectKey(v, key) ==
    CASE v.t = "object" -> selectInMembers(v.m, 1, key)
      [] v.t = "array" -> selectInElements(v.a, key)
      [] OTHER -> <<>>

\* jsonselect parser.GetValues(expr) for the selectors `.key`; any other
\* expression is a selector error
GetValues(v, expr) ==
    IF Len(expr) >= 2 /\ SubSeq(expr, 1, 1) = "."
       /\ RunLen(expr, 2, WordChars) = Len(expr) - 1
    THEN [values |-> selectKey(v, SubSeq(expr, 2, Len(expr))), err |-> Nil]
    ELSE [values |-> <<>>, err |-> Error("invalid selector " \o expr)]

\* doOutput, not extracting: the JSON, pretty or not
plainOutput(pretty, js) ==
    [stdout |-> IF pretty /\ js # "" THEN jsonIndent(jsonParse(js), "") ELSE js,
     stderr |-> "", exit |-> 0]

\* doOutput --x1 printing the first of the values selected
selectOneOutput_FirstMatch(values) ==
    IF Len(values) = 0 THEN [stdout |-> "", stderr |-> "No value could be selected", exit |-> 1]
    ELSE IF values[1].t = "nil" THEN [stdout |-> "", stderr |-> "", exit |-> 0]
    ELSE IF values[1].t \in {"number", "string"} THEN
        [stdout |-> goSprint(values[1]), stderr |-> "", exit |-> 0]
    ELSE [stdout |-> jsonMarshal(values[1]), stderr |-> "", exit |-> 0]

\* doOutput, --x1
selectOneOutput(values) ==
    IF Len(values) = 0 THEN [stdout |-> "", stderr |-> "No value could be selected", exit |-> 1]
    ELSE IF Len(values) > 1 THEN
        [stdout |-> "", stderr |-> "Multiple values selected", exit |-> 1]
    ELSE IF values[1].t = "nil" THEN [stdout |-> "", stderr |-> "", exit |-> 0]
    ELSE IF values[1].t \in {"number", "string"} THEN
        [stdout |-> goSprint(values[1]), stderr |-> "", exit |-> 0]
    ELSE [stdout |-> jsonMarshal(values[1]), stderr |-> "", exit |-> 0]

\* doOutput --xj leaving out a value that was already printed
jsonArrayOutput_Distinct(values) ==
    LET RECURSIVE Distinct(_)
        Distinct(l) ==
            IF Len(l) = 0 THEN <<>>
            ELSE IF \E i \in 1..(Len(l) - 1) : l[i] = l[Len(l)]
                 THEN Distinct(SubSeq(l, 1, Len(l) - 1))
            ELSE Append(Distinct(SubSeq(l, 1, Len(l) - 1)), l[Len(l)])
    IN  [stdout |-> jsonMarshal(JArr(Distinct(values))), stderr |-> "", exit |-> 0]

\* doOutput, --xj: the values as one JSON array
jsonArrayOutput(values) == [stdout |-> jsonMarshal(JArr(values)), stderr |-> "", exit |-> 0]

\* doOutput, --xm: one value per line
RECURSIVE linesOf(_)
linesOf(values) ==
    IF Len(values) = 0 THEN "" ELSE jsonMarshal(Head(values)) \o "\n" \o linesOf(Tail(values))
linesOutput(values) == [stdout |-> linesOf(values), stderr |-> "", exit |-> 0]

\* doOutput(xFlags, selectOne, selectExpr, resp, js); *prettyFlag, *xh and *xj
\* are read from the flags
doOutput(xF, selectOne, expr, resp, js) ==
    IF xF = 0 THEN plainOutput(os.pretty, js)
    ELSE IF os.xh # "" THEN
        [stdout |-> HeaderGet(Deref(resp).header, os.xh), stderr |-> "", exit |-> 0]
    ELSE IF js = "" THEN [stdout |-> "", stderr |-> "EOF", exit |-> 1]
    ELSE LET sel == GetValues(jsonParse(js), expr)
         IN  IF sel.err # Nil THEN [stdout |-> "", stderr |-> ErrorText(sel.err), exit |-> 1]
             ELSE IF selectOne THEN selectOneOutput(sel.values)
             ELSE IF os.xj # "" THEN jsonArrayOutput(sel.values)
             ELSE linesOutput(sel.values)

\* recordToFile: the recording is appended to the file
recordToFile(file, r) == Append(file, r)

\* doRequest after its Do call returned, and the rest of main
RequestReturn ==
    /\ UNCHANGED <<fnVars, warned, testCase>>
    /\ pc = "doRequest"
    /\ dpc = "returned"
    /\ IF ret.err # Nil THEN
           /\ Fatal(IF ret.resp = Nil THEN fatalMessage(ret.err, "")
                    ELSE fatalMessage(ret.err, Deref(ret.resp).errorMessage))
           /\ UNCHANGED <<ReqResp, recordFile>>
       ELSE
           LET data == Deref(ret.resp).data
               js == IF data # JNil THEN jsonMarshal(data) ELSE ""
               o == doOutput(xFlags(os), os.x1 # "", selectExpr(os), ret.resp, js)
               r == [ReqResp EXCEPT !.Stdout = o.stdout, !.ExitCode = o.exit]
           IN  /\ out' = o
               /\ pc' = "exited"
               /\ ReqResp' = IF os.record # "" THEN r ELSE ReqResp
               /\ recordFile' = IF os.record # "" THEN recordToFile(recordFile, r)
                                ELSE recordFile
    /\ UNCHANGED <<doVars, os, rsClientInternal, pending, resourceHref, builds, authCalls,
                   lastNew>>

----------------------------------------------------------------------------
(* The command, run as a process or by the test suite *)

Run(harness, rl10, host, key, record, href, action, envHost, envKey, file) ==
    [harness |-> harness, rl10 |-> rl10, host |-> host, key |-> key, record |-> record,
     href |-> href, action |-> action, arguments |-> NilSlice, envHost |-> envHost,
     envKey |-> envKey, file |-> file,
     x1 |-> "", xm |-> "", xj |-> "", xh |-> "", pretty |-> FALSE]

NoFile == [readable |-> FALSE, text |-> ""]
PortFirst == [readable |-> TRUE, text |-> "RS_RLL_PORT=8080\nRS_RLL_SECRET=abc123\n"]
SecretFirst == [readable |-> TRUE, text |-> "RS_RLL_SECRET=abc123\nRS_RLL_PORT=8080\n"]
NoSecretLine == [readable |-> TRUE, text |-> "RS_RLL_PORT=8080\n"]

\* runs through the RightLink proxy with --host and --key
ProxyRuns ==
    {Run(FALSE, TRUE, "localhost:8080", "s3", "", "self", "index", "", "", NoFile),
     Run(FALSE, TRUE, "localhost:8080", "s3", "rec.json", "servers", "list", "", "", NoFile),
     Run(FALSE, TRUE, "localhost:8080", "s3", "", "/api/servers/1", "destroy", "", "", NoFile),
     Run(FALSE, TRUE, "localhost:8080", "s3", "", "/api/servers/1", "launch", "", "", NoFile),
     Run(FALSE, TRUE, "localhost:8080", "s3", "", "/api/deployments/1", "servers", "", "",
         NoFile),
     Run(FALSE, TRUE, "localhost:8080", "s3", "", "Servers", "index", "", "", NoFile),
     Run(FALSE, TRUE, "localhost:8080", "s3", "", "servers/1", "index", "", "", NoFile)}

\* runs through the RightLink proxy that take the port or the secret from
\* /var/run/rll-secret
ProxyFileRuns ==
    {Run(FALSE, TRUE, "", "", "", "servers", "index", "", "", f) :
        f \in {NoFile, PortFirst, SecretFirst, NoSecretLine}}
    \cup {Run(FALSE, TRUE, "localhost:8080", "", "", "servers", "index", "", "", PortFirst)}

\* runs that go to RightScale directly
DirectRuns ==
    {Run(FALSE, FALSE, "my.rightscale.com", "k", "", "servers", "index", "", "", NoFile),
     Run(FALSE, FALSE, "https://my.rightscale.com", "k", "rec.json", "servers", "show", "", "",
         NoFile),
     Run(FALSE, FALSE, "", "", "", "servers", "index", "us-3.rightscale.com", "ek", NoFile),
     Run(FALSE, FALSE, "my.rightscale.com", "k", "", "self", "index", "", "", NoFile)}

\* runs of main() by recording_test.go: --rl10 --host <test server> and the
\* recorded arguments
HarnessRuns ==
    {Run(TRUE, TRUE, "127.0.0.1:4001", "test-key", "", "servers", "index", "", "", NoFile),
     Run(TRUE, TRUE, "127.0.0.1:4002", "test-key", "", "self", "index", "", "", NoFile),
     Run(TRUE, TRUE, "127.0.0.1:4003", "", "", "servers", "index", "", "", SecretFirst)}

\* a run with --x1, --xm, --xj, --xh and --pretty
WithFlags(run, x1, xm, xj, xh, pretty) ==
    [run EXCEPT !.x1 = x1, !.xm = xm, !.xj = xj, !.xh = xh, !.pretty = pretty]

IndexServers == Run(FALSE, TRUE, "localhost:8080", "s3", "", "servers", "index", "", "", NoFile)
IndexSelf == Run(FALSE, TRUE, "localhost:8080", "s3", "", "self", "index", "", "", NoFile)

\* runs that extract from the response, or print it pretty
ExtractionRuns ==
    {WithFlags(IndexServers, x, "", "", "", FALSE) :
        x \in {".x", ".href", ".rel", ".links", ".none", "!"}}
    \cup {WithFlags(IndexServers, "", x, "", "", FALSE) : x \in {".href", ".x", ".none"}}
    \cup {WithFlags(IndexServers, "", "", x, "", FALSE) : x \in {".href", ".none"}}
    \cup {WithFlags(IndexServers, "", "", "", x, FALSE) : x \in {"Location", "X-Missing"}}
    \cup {WithFlags(IndexServers, "", "", "", "", TRUE)}

\* runs with more than one extraction flag
ManyFlagsRuns ==
    {WithFlags(IndexServers, ".x", ".x", "", "", FALSE),
     WithFlags(IndexSelf, ".x", "", "", "Location", FALSE)}

\* runs recorded with --record, as make_recording.sh makes them
RecordedRuns ==
    LET show == Run(FALSE, FALSE, "us-3.rightscale.com", "k", "rec.json", "servers", "show",
                    "", "", NoFile)
    IN  {WithFlags(show, ".x", "", "", "", FALSE),
         WithFlags(show, "", "", ".href", "", FALSE)}

\* runs with parameters
ParameterRuns ==
    {[IndexServers EXCEPT !.arguments = Slice(<<"filter[]=a b", "filter[]=c&d", "view=x">>)],
     [IndexServers EXCEPT !.arguments = Slice(<<"name=a\nb">>)],
     [IndexServers EXCEPT !.arguments = Slice(<<"view=x", "novalue">>)]}

\* runs for actions of each kind of the tables of doRequest
ActionRuns ==
    {[IndexServers EXCEPT !.href = "/api/servers/1", !.action = a] :
        a \in {"update", "multi_update", "show_source"}}

RunInputs ==
    ActionRuns \cup ParameterRuns \cup ProxyRuns \cup ProxyFileRuns \cup DirectRuns \cup HarnessRuns \cup ExtractionRuns
        \cup ManyFlagsRuns \cup RecordedRuns

\* no Do call is under way
IdleDo ==
    /\ c' = Client("", "", "")
    /\ call' = [method |-> "", uri |-> "", args |-> NilSlice, contentType |-> "",
                content |-> ""]
    /\ req' = NoReq
    /\ dump' = NoDump
    /\ reqBody' = ""
    /\ wire' = <<>>
    /\ try' = 0
    /\ attempts' = 0
    /\ responses' = 0
    /\ last' = NoOutcome
    /\ log' = <<>>
    /\ ret' = NoRet
    /\ classified' = NoRet
    /\ recording' = <<>>
    /\ dpc' = "idle"

\* recording_test.go: main() returned through the intercepted osExit, and the
\* next test case resets the cache and calls main() with its arguments
Reinvoke ==
    /\ UNCHANGED <<fnVars, recVars>>
    /\ pc = "exited"
    /\ os.harness
    /\ testCase = Nil
    /\ os' \in HarnessRuns
    /\ rsClientInternal' = Nil
    /\ pc' = "main"
    /\ pending' = NoCall
    /\ resourceHref' = ""
    /\ out' = NoOut
    /\ builds' = 0
    /\ authCalls' = 0
    /\ lastNew' = NoNew
    /\ warned' = ""
    /\ IdleDo

\* recording_test.go: the path and the query the test server expects, the
\* groups of `https?://[^/]+(/[^?]+)\??(.*)` on the recorded URI (nil when the
\* URI does not match)
recordedTarget(uri) ==
    LET p == IF HasPrefix(uri, "https://") THEN 9
             ELSE IF HasPrefix(uri, "http://") THEN 8 ELSE 0
        h == RunUntil(uri, p, "/")
        n == RunUntil(uri, p + h + 1, "?")
    IN  IF p = 0 \/ h = 0 \/ p + h > Len(uri) \/ n = 0 THEN <<>>
        ELSE <<SubSeq(uri, p + h, p + h + n), SubSeq(uri, p + h + n + 2, Len(uri))>>

\* recording_test.go: a test case read from the recording file is played
\* back: main() runs on --rl10 --host <test server> and the recorded
\* arguments, in the environment of the recorded run
Replay ==
    /\ UNCHANGED <<fnVars, ReqResp, recordFile>>
    /\ pc = "exited"
    /\ ~os.harness
    /\ testCase = Nil
    /\ \E i \in 1..Len(recordFile) :
          /\ testCase' = Ptr(recordFile[i])
          /\ os' = kingpinParse(harnessArgs(recordFile[i]),
                                [NoRun EXCEPT !.harness = TRUE, !.envHost = os.envHost,
                                              !.envKey = os.envKey, !.file = os.file], 0)
    /\ rsClientInternal' = Nil
    /\ pc' = "main"
    /\ pending' = NoCall
    /\ resourceHref' = ""
    /\ out' = NoOut
    /\ builds' = 0
    /\ authCalls' = 0
    /\ lastNew' = NoNew
    /\ warned' = ""
    /\ IdleDo

Init ==
    /\ IdleFn
    /\ warned = ""
    /\ ReqResp = NoRecording
    /\ recordFile = <<>>
    /\ testCase = Nil
    /\ os \in RunInputs
    /\ rsClientInternal = Nil
    /\ pc = "main"
    /\ pending = NoCall
    /\ resourceHref = ""
    /\ out = NoOut
    /\ builds = 0
    /\ authCalls = 0
    /\ lastNew = NoNew
    /\ c = Client("", "", "")
    /\ call = [method |-> "", uri |-> "", args |-> NilSlice, contentType |-> "",
               content |-> ""]
    /\ req = NoReq
    /\ dump = NoDump
    /\ reqBody = ""
    /\ wire = <<>>
    /\ try = 0
    /\ attempts = 0
    /\ responses = 0
    /\ last = NoOutcome
    /\ log = <<>>
    /\ ret = NoRet
    /\ classified = NoRet
    /\ recording = <<>>
    /\ dpc = "idle"

Next ==
    \/ MainStart
    \/ Replay
    \/ DoPrepare
    \/ DoTransportError
    \/ DoResponse
    \/ AuthenticateReturn
    \/ SelfEnvReturn
    \/ SelfInstanceReturn
    \/ SelfPutReturn
    \/ RequestReturn
    \/ Reinvoke

Spec == Init /\ [][Next]_vars

----------------------------------------------------------------------------
(* A Do call on any client, with any arguments *)

Secrets == {"", "s3"}
Tokens == {"", "tok"}

Clients ==
    [httpServer : {"http://localhost:80"}, account : {""}, authToken : Tokens,
     apiKey : {""}, proxySecret : Secrets, apiVersion : {"1.5"}, recorder : BOOLEAN]
    \cup
    [httpServer : {"https://a b"}, account : {""}, authToken : {"tok"},
     apiKey : {"k"}, proxySecret : {""}, apiVersion : {"1.5"}, recorder : {FALSE}]

Calls ==
    [method : {"GET"}, uri : {"/api/x", "api/x"},
     args : {NilSlice, Slice(<<>>), Slice(<<"a=1", "b=2">>)},
     contentType : {""}, content : {""}]
    \cup
    [method : {"PUT"}, uri : {"/api/x"}, args : {NilSlice},
     contentType : {"text/plain"}, content : {"/api/i/1"}]

InitDo ==
    /\ IdleFn
    /\ warned = ""
    /\ ReqResp = NoRecording
    /\ recordFile = <<>>
    /\ testCase = Nil
    /\ recording = <<>>
    /\ \E cl \in Clients, k \in Calls :
          /\ c = cl
          /\ call = k
    /\ req = NoReq
    /\ dump = NoDump
    /\ reqBody = ""
    /\ wire = <<>>
    /\ try = 0
    /\ attempts = 0
    /\ responses = 0
    /\ last = NoOutcome
    /\ log = <<>>
    /\ ret = NoRet
    /\ classified = NoRet
    /\ dpc = "call"
    /\ os = NoRun
    /\ rsClientInternal = Nil
    /\ pc = "caller"
    /\ pending = NoCall
    /\ resourceHref = ""
    /\ out = NoOut
    /\ builds = 0
    /\ authCalls = 0
    /\ lastNew = NoNew

NextDo == DoPrepare \/ DoTransportError \/ DoResponse

SpecDo == InitDo /\ [][NextDo]_vars

----------------------------------------------------------------------------
(* A queryStringArgs call on any args map *)

QKeys == {"view", "filter[]"}
QValues ==
    {QString("expanded"), QString("a&b=c d"), QString(""),
     QList(<<>>), QList(<<"x==1">>), QList(<<"x==1", "y==/api/clouds/1">>),
     QList(<<"p", "p">>), QOther}

\* the maps over QKeys, each in every order the range loop may take
ArgMaps ==
    {<<>>}
    \cup {<<<<k, v>>>> : k \in QKeys, v \in QValues}
    \cup {m \in {<<<<k1, v1>>, <<k2, v2>>>> :
                     k1 \in QKeys, k2 \in QKeys, v1 \in QValues, v2 \in QValues} :
             m[1][1] # m[2][1]}

InitQS ==
    /\ warned = ""
    /\ ReqResp = NoRecording
    /\ recordFile = <<>>
    /\ testCase = Nil
    /\ qsArgs \in ArgMaps
    /\ qs = ""
    /\ qspc = "call"
    /\ argv = <<>> /\ captured = <<>> /\ cpc = "idle"
    /\ c = Client("", "", "")
    /\ call = [method |-> "", uri |-> "", args |-> NilSlice, contentType |-> "",
               content |-> ""]
    /\ req = NoReq
    /\ dump = NoDump
    /\ reqBody = ""
    /\ wire = <<>>
    /\ try = 0
    /\ attempts = 0
    /\ responses = 0
    /\ last = NoOutcome
    /\ log = <<>>
    /\ ret = NoRet
    /\ classified = NoRet
    /\ recording = <<>>
    /\ dpc = "idle"
    /\ os = NoRun
    /\ rsClientInternal = Nil
    /\ pc = "caller"
    /\ pending = NoCall
    /\ resourceHref = ""
    /\ out = NoOut
    /\ builds = 0
    /\ authCalls = 0
    /\ lastNew = NoNew

NextQS == QueryStringArgsCall

SpecQS == InitQS /\ [][NextQS]_vars

----------------------------------------------------------------------------
(* A captureCmdArgs call on any command line *)

\* the values of a recorded run, as make_recording.sh gives them
RealKey == "s3cr3t"
RealHost == "us-3.rightscale.com"
RecordName == "recording-new.json"

\* a flag with its value, not given, as two arguments or as one
FlagForms(flag, value) == {<<>>, <<flag, value>>, <<flag \o "=" \o value>>}

\* command lines: --rl10 or not, --host, --key and --record in each form and
\* in either order of --key and --record, then the rest of the command
CommandLines ==
    {rl \o h \o k \o r \o rest :
        rl \in {<<>>, <<"--rl10">>},
        h \in FlagForms("--host", RealHost),
        k \in FlagForms("--key", RealKey),
        r \in FlagForms("--record", RecordName),
        rest \in {<<"index", "clouds">>, <<"--x1", ".cloud_type", "show", "/api/clouds/6">>}}
    \cup {r \o k \o <<"index", "clouds">> :
            k \in FlagForms("--key", RealKey), r \in FlagForms("--record", RecordName)}

\* main's call of captureCmdArgs
CaptureCmdArgsCall ==
    /\ cpc = "call"
    /\ captured' = captureCmdArgs(argv)
    /\ cpc' = "returned"
    /\ UNCHANGED <<argv, qsArgs, qs, qspc, doVars, cmdVars, recVars>>

InitCapture ==
    /\ warned = ""
    /\ ReqResp = NoRecording
    /\ recordFile = <<>>
    /\ testCase = Nil
    /\ qsArgs = <<>> /\ qs = "" /\ qspc = "idle"
    /\ argv \in CommandLines
    /\ captured = <<>>
    /\ cpc = "call"
    /\ c = Client("", "", "")
    /\ call = [method |-> "", uri |-> "", args |-> NilSlice, contentType |-> "",
               content |-> ""]
    /\ req = NoReq
    /\ dump = NoDump
    /\ reqBody = ""
    /\ wire = <<>>
    /\ try = 0
    /\ attempts = 0
    /\ responses = 0
    /\ last = NoOutcome
    /\ log = <<>>
    /\ ret = NoRet
    /\ classified = NoRet
    /\ recording = <<>>
    /\ dpc = "idle"
    /\ os = NoRun
    /\ rsClientInternal = Nil
    /\ pc = "caller"
    /\ pending = NoCall
    /\ resourceHref = ""
    /\ out = NoOut
    /\ builds = 0
    /\ authCalls = 0
    /\ lastNew = NoNew

NextCapture == CaptureCmdArgsCall

SpecCapture == InitCapture /\ [][NextCapture]_vars

----------------------------------------------------------------------------
(* Properties of one Do call (checked under SpecDo) *)

\* the Do call has ended: it returned to its caller or it panicked
DoEnded == dpc \in {"returned", "panicked"}

\* every outcome so far is a response with a status >= 500, received whole
All5xx(l) ==
    /\ Len(l) > 0
    /\ \A i \in 1..Len(l) : l[i].kind = "response" /\ l[i].status >= 500 /\ l[i].readOK

\* the error processResponse pairs with a response of an error status
StatusError(rq, o) == Error("HTTP " \o rq.method \o " " \o rq.path \o ": " \o Status(o.status))

C2_TransportRetriesBounded ==
    /\ attempts <= 3
    /\ (attempts >= 3 /\ last.kind = "error") =>
          (dpc = "returned" /\ ret.resp = Nil /\ ret.err # Nil)

\* the response is a success status with a non-empty body that is not JSON
UndecodableSuccess(o) ==
    /\ o.kind = "response" /\ o.readOK
    /\ o.status >= 200 /\ o.status < 299
    /\ o.body # ""
    /\ jsonDecode(o.body).err \notin {"", "EOF"}

\* C3: when a response has a status in [200,299) and a non-empty body that is
\* not decodable as JSON, Do returns a non-nil error that wraps the decode
\* failure and names the request method and path; the call does not crash.
C3_DecodeFailureReturned ==
    (dpc # "loop" /\ UndecodableSuccess(last)) =>
        /\ dpc = "returned"
        /\ ret.err # Nil
        /\ ErrorText(ret.err) = "HTTP " \o req.method \o " " \o req.path \o ": "
                                  \o "error decoding json: " \o jsonDecode(last.body).err

\* the exchange completed: a response was received and its body read
Completed(o) == o.kind = "response" /\ o.readOK

SuccessStatus(o) == o.status >= 200 /\ o.status < 299

\* C4: the pair (Response, error) a Do call ends with has one of three
\* shapes: (non-nil, nil) exactly when the final status is in [200,299);
\* (non-nil, non-nil) whenever the exchange completed with a status outside
\* that range, the error giving the status line and errorMessage the body;
\* (nil, non-nil) only when the request did not complete; never (nil, nil).
C4_ResultShapes ==
    (DoEnded /\ (last.kind = "none" \/ Completed(last))) =>
        /\ dpc = "returned"
        /\ ~(ret.resp = Nil /\ ret.err = Nil)
        /\ (ret.resp # Nil /\ ret.err = Nil) <=> (Completed(last) /\ SuccessStatus(last))
        /\ (Completed(last) /\ ~SuccessStatus(last)) =>
              /\ ret.resp # Nil
              /\ ret.err = StatusError(req, last)
              /\ Deref(ret.resp).errorMessage = last.body
        /\ (ret.resp = Nil /\ ret.err # Nil) => ~Completed(last)

\* C6: whenever a response body was read, what the Do call hands to its
\* caller gives access to the raw bytes of that body, also when the JSON
\* decoding of the body failed.
C6_RawKept ==
    (DoEnded /\ Completed(last)) =>
        /\ dpc = "returned"
        /\ ret.resp # Nil
        /\ Deref(ret.resp).raw = last.body

\* C7: a request carries at most one credential header: with a non-empty
\* proxy secret it carries X-RLL-Secret with the secret and no Authorization
\* header, also when a bearer token is present; it carries Authorization:
\* Bearer <token> only when the proxy secret is empty and the token is not.
C7_OneCredentialHeader ==
    (dpc \in {"loop", "returned", "panicked"} /\ req # NoReq) =>
        /\ ~(HeaderHas(req.header, "X-RLL-Secret") /\ HeaderHas(req.header, "Authorization"))
        /\ c.proxySecret # "" =>
              /\ <<"X-RLL-Secret", c.proxySecret>> \in req.header
              /\ ~HeaderHas(req.header, "Authorization")
        /\ HeaderHas(req.header, "Authorization") <=>
              (c.proxySecret = "" /\ c.authToken # "")
        /\ HeaderHas(req.header, "Authorization") =>
              <<"Authorization", "Bearer " \o c.authToken>> \in req.header
        /\ Cardinality({p \in req.header : p[1] \in {"X-RLL-Secret", "Authorization"}}) <= 1

\* a request was sent by a client holding both a proxy secret and a token
C7_Witness ==
    /\ attempts >= 1
    /\ req # NoReq
    /\ c.proxySecret # ""
    /\ c.authToken # ""

----------------------------------------------------------------------------
(* Properties of the command, checked under Spec *)

\* the last outcome is a response with a status in [200,299) and an empty
\* body that was read to its end
EmptySuccess(o) == o.kind = "response" /\ o.readOK /\ o.status \in 200..298 /\ o.body = ""

\* C5: a response with a status in [200,299) and an empty body is classified
\* as a Response with nil data and no error, and the command that requested
\* it, when it prints the JSON output (no extraction flag), prints the empty
\* string and exits with 0.
C5_EmptyBodyIsNilData ==
    [][/\ EmptySuccess(last') =>
             /\ classified'.err = Nil
             /\ classified'.resp # Nil
             /\ Deref(classified'.resp).data = JNil
             /\ Deref(classified'.resp).raw = ""
             /\ dpc' = "returned"
             /\ ret' = classified'
       /\ (pc = "doRequest" /\ dpc = "returned" /\ EmptySuccess(last)) =>
             /\ pc' = "exited"
             /\ xFlags(os) = 0 => out' = [stdout |-> "", stderr |-> "", exit |-> 0]
      ]_vars

\* the command printed its output for an empty 200 response
C5_Witness ==
    pc = "exited" /\ xFlags(os) = 0 /\ EmptySuccess(last) /\ last.status = 200
        /\ call.method = "GET"

\* the secret file holds a port line and a secret line, and the command line
\* gives neither host nor secret
ValidSecretFile(o) == o.rl10 /\ o.host = "" /\ o.key = "" /\ o.file \in {PortFirst, SecretFirst}

\* C8: with a secret file that holds RS_RLL_PORT=8080 and RS_RLL_SECRET=abc123
\* in either order, NewProxyClient without host and secret succeeds with a
\* client for http://localhost:8080 and the proxy secret abc123.
C8_ProxyClientFromFile ==
    (ValidSecretFile(os) /\ lastNew.fn = "NewProxyClient") =>
        /\ lastNew.err = Nil
        /\ rsClientInternal # Nil
        /\ Deref(rsClientInternal).httpServer = "http://localhost:8080"
        /\ Deref(rsClientInternal).proxySecret = "abc123"

\* the token exchange gave a usable bearer token: Do returned no error and the
\* body is a JSON object with a non-empty string access_token
UsableToken(r) ==
    /\ r.err = Nil
    /\ r.resp # Nil
    /\ stringMember(Deref(r.resp).data, "access_token").ok
    /\ stringMember(Deref(r.resp).data, "access_token").s # ""

\* C9: NewDirectClient returns a client only when the token exchange gave a
\* usable bearer token, and fails with an error otherwise; every request of a
\* client it returned carries Authorization: Bearer <token> with a non-empty
\* token.
C9_ClientOnlyWithToken ==
    [][/\ (pc = "authenticate" /\ dpc = "returned") =>
             IF UsableToken(ret) THEN
                 /\ rsClientInternal' # Nil
                 /\ lastNew'.err = Nil
                 /\ Deref(rsClientInternal').authToken =
                        stringMember(Deref(ret.resp).data, "access_token").s
             ELSE
                 /\ rsClientInternal' = Nil
                 /\ lastNew'.err # Nil
                 /\ pc' = "fatal"
       /\ (lastNew'.fn = "NewDirectClient" /\ rsClientInternal' # Nil /\ req' # NoReq) =>
             /\ c' = Deref(rsClientInternal')
             /\ c'.authToken # ""
             /\ <<"Authorization", "Bearer " \o c'.authToken>> \in req'.header
      ]_vars

\* the client rightscale() holds was built from the flags of the run
FromFlags(cl, o) ==
    IF o.rl10 THEN
        (o.key # "" /\ reWhere(o.host) # <<>>) =>
            (cl.httpServer = "http://" \o o.host /\ cl.proxySecret = o.key)
    ELSE
        LET h == IF o.host = "" THEN o.envHost ELSE o.host
            k == IF o.key = "" THEN o.envKey ELSE o.key
        IN  /\ cl.httpServer \in {h, "https://" \o h}
            /\ cl.apiKey = k
            /\ cl.proxySecret = ""

\* C10: between two resets of the cache rightscale() builds the client at
\* most once and starts at most one token exchange; once the handle is set,
\* every later call leaves it, and the two counts, as they are; a reset leaves
\* no handle, and the handle built after it is the one for the flags of the
\* run that builds it.
C10_ClientBuiltOnce ==
    [][/\ builds' <= 1
       /\ authCalls' <= 1
       /\ (rsClientInternal # Nil /\ pc' # "main") =>
             /\ rsClientInternal' = rsClientInternal
             /\ builds' = builds
             /\ authCalls' = authCalls
       /\ pc' = "main" => (rsClientInternal' = Nil /\ builds' = 0 /\ authCalls' = 0)
       /\ rsClientInternal' # Nil =>
             /\ builds' = 1
             /\ authCalls' = (IF os'.rl10 THEN 0 ELSE 1)
             /\ FromFlags(Deref(rsClientInternal'), os')
      ]_vars

\* the third call of rightscale() in a run that resolves the href "self" found
\* the handle the first call built
C10_Witness ==
    /\ os.href = "self"
    /\ pc = "getSelfPut"
    /\ call.method = "PUT"
    /\ rsClientInternal # Nil
    /\ c = Deref(rsClientInternal)
    /\ builds = 1

----------------------------------------------------------------------------
(* Properties of queryStringArgs, checked under SpecQS *)

\* strings.Split(s, sep) for a one-character sep
RECURSIVE SplitFrom(_, _, _, _)
SplitFrom(s, sep, i, start) ==
    IF i > Len(s) THEN <<SubSeq(s, start, Len(s))>>
    ELSE IF SubSeq(s, i, i) = sep THEN
        <<SubSeq(s, start, i - 1)>> \o SplitFrom(s, sep, i + 1, i + 1)
    ELSE SplitFrom(s, sep, i + 1, start)

Split(s, sep) == SplitFrom(s, sep, 1, 1)

\* a query string read back: split on "&", each piece split on "=", every
\* part percent-decoded (the empty string holds no piece)
DecodeQuery(s) ==
    IF s = "" THEN <<>>
    ELSE [i \in 1..Len(Split(s, "&")) |->
             [j \in 1..Len(Split(Split(s, "&")[i], "=")) |->
                 QueryUnescape(Split(Split(s, "&")[i], "=")[j])]]

\* the key/value pairs of an args map, a key once per element of its list
RECURSIVE PairsOf(_)
PairsOf(entries) ==
    IF Len(entries) = 0 THEN <<>>
    ELSE LET k == Head(entries)[1]
             v == Head(entries)[2]
         IN  (IF v.t = "string" THEN <<<<k, v.s>>>>
              ELSE [i \in 1..Len(v.l) |-> <<k, v.l[i]>>])
             \o PairsOf(Tail(entries))

Occurrences(l, x) == Cardinality({i \in 1..Len(l) : l[i] = x})

\* two lists hold the same elements the same number of times
SameMultiset(a, b) ==
    /\ Len(a) = Len(b)
    /\ \A i \in 1..Len(a) : Occurrences(a, a[i]) = Occurrences(b, a[i])

\* C11: for an args map of strings and lists of strings, the string
\* queryStringArgs returns, split on "&" and on "=" and percent-decoded, is
\* exactly the multiset of the map's key/value pairs, a key repeated once per
\* element of its list, in whatever order the map is iterated.
C11_QueryStringRoundTrip ==
    (qspc # "call" /\ \A i \in 1..Len(qsArgs) : qsArgs[i][2].t \in {"string", "[]string"}) =>
        /\ qspc = "returned"
        /\ SameMultiset(DecodeQuery(qs), PairsOf(qsArgs))

----------------------------------------------------------------------------
(* Properties of the command's output, checked under Spec *)

\* the command ended after doRequest got a response without error whose value
\* is not nil, with exactly one extraction flag, a selector
Extracted(o) ==
    /\ pc = "exited"
    /\ xFlags(o) = 1
    /\ o.xh = ""
    /\ ret.err = Nil
    /\ ret.resp # Nil
    /\ Deref(ret.resp).data # JNil
    /\ GetValues(Deref(ret.resp).data, selectExpr(o)).err = Nil

\* the values the selector of the run selects from the response
Selected(o) == GetValues(Deref(ret.resp).data, selectExpr(o)).values

\* C12: with --x1, a selector that selects no value, or two or more, ends the
\* command with a non-zero exit code, a message on stderr and an empty
\* stdout; the first value is not printed.
C12_SingleValueOrError ==
    (Extracted(os) /\ os.x1 # "" /\ Len(Selected(os)) # 1) =>
        /\ out.exit # 0
        /\ out.stdout = ""
        /\ out.stderr # ""

\* --x1 selected three values and the command ended
C12_Witness == Extracted(os) /\ os.x1 # "" /\ Len(Selected(os)) = 3 /\ out.exit = 1

\* every one of the values is a string, a number or null
AllScalars(values) ==
    \A i \in 1..Len(values) : values[i].t \in {"string", "number", "nil"}

\* C13: in every extraction mode a selected scalar is printed as its JSON
\* text (a string in its quotes, null as null): --x1 prints the JSON text of
\* its one value, --xm the JSON text of every value on a line of its own, --xj
\* the JSON array of the values; so a single null and an empty selection
\* give different output.
C13_ScalarsAsJSONText ==
    (Extracted(os) /\ AllScalars(Selected(os))) =>
        /\ (os.x1 # "" /\ Len(Selected(os)) = 1) =>
              out = [stdout |-> jsonMarshal(Selected(os)[1]), stderr |-> "", exit |-> 0]
        /\ os.xm # "" =>
              out = [stdout |-> linesOf(Selected(os)), stderr |-> "", exit |-> 0]
        /\ os.xj # "" =>
              out = [stdout |-> jsonMarshal(JArr(Selected(os))), stderr |-> "", exit |-> 0]

\* the JSON texts of the values, in their order
JSONTexts(values) == [i \in 1..Len(values) |-> jsonMarshal(values[i])]

ExtractionSucceeded(o) ==
    (xFlags(o) = 1 /\ o.xh = "") =>
        /\ Deref(ret.resp).data # JNil
        /\ GetValues(Deref(ret.resp).data, selectExpr(o)).err = Nil
        /\ o.x1 # "" => Len(Selected(o)) = 1

\* C15: the command ends with exit code 0 only after an HTTP exchange that
\* completed with a success status, an extraction that gave its result and no
\* error on the way; an error of the configuration, of the authentication, of
\* the transport, of a 4xx or 5xx status or of the extraction ends it with a
\* non-zero exit code and a message on stderr.
C15_ExitCodeReportsErrors ==
    /\ (pc = "exited" /\ out.exit = 0) =>
          /\ ret.err = Nil
          /\ Completed(last) /\ SuccessStatus(last)
          /\ ExtractionSucceeded(os)
          /\ warned = ""
    /\ (pc \in {"exited", "fatal"} /\ out.exit # 0) => out.stderr # ""
    /\ lastNew.err # Nil => (pc = "fatal" /\ out.exit # 0)
    /\ (dpc = "returned" /\ ret.err # Nil /\ pc \in {"exited", "fatal"}) => out.exit # 0
    /\ (last.kind = "error" /\ attempts >= 3) => (pc = "fatal" /\ out.exit # 0)

\* C16: a run with more than one of --x1, --xm, --xj, --xh issues no HTTP
\* request, whatever its resource href (`self` included), and ends with a
\* non-zero exit code.
C16_ManyFlagsFailBeforeRequest ==
    xFlags(os) > 1 =>
        /\ attempts = 0
        /\ pc \in {"exited", "fatal"} => out.exit # 0

\* C17: with a recorder, every attempt of a Do call that received a response,
\* the attempts retried included, has its entry in the recording: the method,
\* the URL, the request dump and the response body, equal to the raw body of
\* that response.
C17_EveryExchangeRecorded ==
    (c.recorder /\ last.kind = "response") =>
        /\ Len(recording) = responses
        /\ recording[Len(recording)] =
               [method |-> req.method, uri |-> req.url, dump |-> dump,
                respBody |-> last.body]

\* C18: the request headers of a stored recording hold neither the credential
\* of the client (Authorization, X-RLL-Secret) nor the User-Agent.
C18_NoCredentialRecorded ==
    \A r \in {ReqResp} \cup {recordFile[i] : i \in 1..Len(recordFile)} :
        /\ ~HeaderHas(r.RR.ReqHeader, "Authorization")
        /\ ~HeaderHas(r.RR.ReqHeader, "X-RLL-Secret")
        /\ ~HeaderHas(r.RR.ReqHeader, "User-Agent")

\* C19: the replay of a recorded run ends with the recorded exit code and the
\* recorded stdout, and the request it sends has the recorded verb, path,
\* query, body and request headers.
C19_ReplayRoundTrip ==
    testCase # Nil =>
        /\ pc # "fatal"
        /\ pc = "exited" =>
              /\ out.exit = Deref(testCase).ExitCode
              /\ out.stdout = Deref(testCase).Stdout
        /\ attempts > 0 =>
              /\ req.method = Deref(testCase).RR.Verb
              /\ recordedTarget(req.url) = recordedTarget(Deref(testCase).RR.Uri)
              /\ req.body = Deref(testCase).RR.ReqBody
              /\ Deref(testCase).RR.ReqHeader \subseteq req.header

\* a response with a status in [200,299) whose body, read to its end, is JSON
JSONSuccess(o) ==
    o.kind = "response" /\ o.readOK /\ o.status \in 200..298 /\ jsonDecode(o.body).err = ""

\* C20: without an extraction flag, a request answered with a success status
\* and a JSON body ends the command with exit code 0 and the JSON encoding of
\* the response value on stdout, pretty-printed with --pretty; the body
\* { "x" : 1 } gives {"x":1}.
C20_PlainOutputIsJSON ==
    (pc = "exited" /\ xFlags(os) = 0 /\ JSONSuccess(last)) =>
        /\ out.exit = 0
        /\ out.stdout = IF os.pretty THEN jsonIndent(jsonDecode(last.body).data, "")
                        ELSE jsonMarshal(jsonDecode(last.body).data)
        /\ (last.body = "{ \"x\" : 1 }" /\ ~os.pretty) => out.stdout = "{\"x\":1}"
        /\ (last.body = "{ \"x\" : 1 }" /\ os.pretty) => out.stdout = "{\n  \"x\": 1\n}"

\* strings.Contains
ContainsStr(s, sub) == \E i \in 1..(Len(s) - Len(sub) + 1) : SubSeq(s, i, i + Len(sub) - 1) = sub

\* C21: when the response was fetched and --x1 selects no value or several,
\* the command ends with a non-zero exit code and its error message holds the
\* JSON of the response.
C21_ExtractionErrorShowsBody ==
    (Extracted(os) /\ os.x1 # "" /\ Len(Selected(os)) # 1) =>
        /\ out.exit # 0
        /\ \/ ContainsStr(out.stderr, Deref(ret.resp).raw)
           \/ ContainsStr(out.stderr, jsonMarshal(Deref(ret.resp).data))

WholeWord(h) == Len(h) > 0 /\ RunLen(h, 1, LowerCase \cup Digits \cup {"_"}) = Len(h)

\* the string is /api or /rll followed by one or more /segments of [A-Za-z0-9_]
WholePath(h) == (MatchAt(h, 1, "/api") \/ MatchAt(h, 1, "/rll")) /\ SegmentsToEnd(h, 5)

\* C23: a resource href that is one word of [a-z0-9_] becomes /api/<word>, one
\* that is a path under /api or /rll is used unchanged, and every other string
\* (self apart) ends the command with a fatal error before any HTTP request.
C23_HrefResolution ==
    (os.href # "self" /\ pc # "main") =>
        IF WholeWord(os.href) THEN resourceHref = "/api/" \o os.href
        ELSE IF WholePath(os.href) THEN resourceHref = os.href
        ELSE pc = "fatal" /\ dpc = "idle" /\ attempts = 0

\* the argument is a key of [a-zA-Z0-9_\[\]], an "=" and a value
KeyValue(a) ==
    LET k == RunLen(a, 1, WordChars \cup {"[", "]"}) IN k > 0 /\ MatchAt(a, k + 1, "=")

\* the key, "=" and the query-escaped whole value of an argument
Escaped(a) ==
    LET k == RunLen(a, 1, WordChars \cup {"[", "]"})
    IN  SubSeq(a, 1, k + 1) \o QueryEscape(SubSeq(a, k + 2, Len(a)))

\* C24: the query string of the request holds, for every parameter key=value
\* of the command line, in order and with repeated keys kept, the key, "=" and
\* the value query-escaped once, at every attempt of the Do call.
C24_ParametersInQuery ==
    (/\ pc \in {"doRequest", "exited"}
     /\ dpc \in {"loop", "returned", "panicked"}
     /\ ~os.arguments.isNil
     /\ \A i \in 1..Len(os.arguments.elems) : KeyValue(os.arguments.elems[i])) =>
        req.url = makeURL(c, call.uri) \o "?"
                      \o Join([i \in 1..Len(os.arguments.elems) |->
                                  Escaped(os.arguments.elems[i])], "&")

\* C25: a Do call stops at the first attempt answered with a status below 500:
\* that response is classified and returned, every response before it had a
\* status of 500 or more, and the Response returned is that of the last
\* attempt made.
C25_StopsAtFirstBelow500 ==
    /\ (last.kind = "response" /\ last.status < 500) =>
          /\ dpc = "returned"
          /\ ret = classified
          /\ ret.resp # Nil
    /\ (dpc = "returned" /\ ret.resp # Nil) =>
          /\ last.kind = "response"
          /\ Deref(ret.resp).statusCode = last.status
          /\ Deref(ret.resp).raw = last.body
    /\ \A i \in 1..(Len(log) - 1) : log[i].kind = "response" => log[i].status >= 500

\* C26: the href `self` is resolved in a fixed order. Without --rl10 the run
\* fails before any request. Otherwise GET /rll/env comes first, and a
\* non-empty RS_SELF_HREF in its answer is the href, with no further request
\* for it. Only otherwise GET /api/session/instance follows, the href being
\* that of its `self` link (fatal when there is none), and then
\* PUT /rll/env/RS_SELF_HREF with the href as body. A failure of the PUT is a
\* warning only: the run goes on with the href.
SelfRequest(cl) == cl.uri \in {"/rll/env", "/api/session/instance", "/rll/env/RS_SELF_HREF"}

SelfLinkOf(d) ==
    IF d.t = "object" /\ "links" \in DOMAIN d.m /\ d.m["links"].t = "array"
       /\ \E i \in 1..Len(d.m["links"].a) :
             d.m["links"].a[i] = JObj([rel |-> JStr("self"),
                                       href |-> JStr("/api/clouds/1/instances/2")])
    THEN "/api/clouds/1/instances/2" ELSE ""

EnvHrefOf(d) ==
    IF d.t = "object" /\ "RS_SELF_HREF" \in DOMAIN d.m /\ d.m["RS_SELF_HREF"].t = "string"
    THEN d.m["RS_SELF_HREF"].s ELSE ""

C26_SelfResolutionOrder ==
    [][ /\ (pc = "main" /\ os.href = "self" /\ ~os.rl10 /\ pc' # "main") =>
              /\ pc' = "fatal" /\ out'.exit = 1
              /\ attempts' = attempts /\ call' = call /\ dpc' = dpc
        /\ (pc = "main" /\ os.href = "self" /\ os.rl10 /\ pc' # "main") =>
              \/ pc' = "fatal" /\ lastNew'.err # Nil /\ dpc' = dpc
              \/ /\ pc' = "getSelfEnv"
                 /\ call'.method = "GET" /\ call'.uri = "/rll/env" /\ dpc' = "call"
        /\ (pc' = "getSelfEnv" /\ pc # "getSelfEnv") => pc = "main"
        /\ (pc = "getSelfEnv" /\ pc' # "getSelfEnv") =>
              /\ dpc = "returned"
              /\ IF ret.err # Nil THEN pc' = "fatal" /\ dpc' = dpc
                 ELSE IF EnvHrefOf(Deref(ret.resp).data) # "" THEN
                     /\ resourceHref' = EnvHrefOf(Deref(ret.resp).data)
                     /\ pc' \in {"doRequest", "fatal"}
                     /\ pc' = "doRequest" => (dpc' = "call" /\ ~SelfRequest(call'))
                     /\ pc' = "fatal" => dpc' = dpc
                 ELSE
                     /\ pc' = "getSelfInstance"
                     /\ call'.method = "GET" /\ call'.uri = "/api/session/instance"
                     /\ dpc' = "call"
        /\ (pc' = "getSelfInstance" /\ pc # "getSelfInstance") => pc = "getSelfEnv"
        /\ (pc = "getSelfInstance" /\ pc' # "getSelfInstance") =>
              /\ dpc = "returned"
              /\ IF ret.err # Nil \/ SelfLinkOf(Deref(ret.resp).data) = "" THEN
                     pc' = "fatal" /\ out'.exit = 1 /\ dpc' = dpc
                 ELSE
                     /\ pc' = "getSelfPut"
                     /\ resourceHref' = SelfLinkOf(Deref(ret.resp).data)
                     /\ call'.method = "PUT" /\ call'.uri = "/rll/env/RS_SELF_HREF"
                     /\ call'.contentType = "text/plain"
                     /\ call'.content = resourceHref'
                     /\ dpc' = "call"
        /\ (pc' = "getSelfPut" /\ pc # "getSelfPut") => pc = "getSelfInstance"
        /\ (pc = "getSelfPut" /\ pc' # "getSelfPut") =>
              /\ dpc = "returned"
              /\ resourceHref' = resourceHref
              /\ pc' \in {"doRequest", "fatal"}
              /\ pc' = "doRequest" => (dpc' = "call" /\ ~SelfRequest(call'))
              /\ xFlags(os) <= 1 => pc' = "doRequest"
              /\ ret.err # Nil => warned' # warned
              /\ ret.err = Nil => warned' = warned
      ]_vars

\* the PUT of a resolution that went through all three requests failed, and
\* the request for the resource follows
C26_Witness ==
    /\ os.href = "self"
    /\ pc = "doRequest"
    /\ resourceHref = "/api/clouds/1/instances/2"
    /\ warned # ""
    /\ dpc = "call"
    /\ call.uri = "/api/clouds/1/instances/2"

\* C27: the verb and the URI of the request for the resource follow from the
\* action alone: GET for index, show and list, POST for update and create,
\* DELETE for destroy, each on the href as it is; the suffix and the verb of
\* the table for the actions it lists; POST on href/action for every other
\* action. A run for `list` requests what the run for `index` requests.
GetActions == {"index", "show", "list"}
SuffixActions ==
    {<<"accounts", "/accounts", "GET">>, <<"current_instances", "/current_instances", "GET">>,
     <<"data", "/data", "GET">>, <<"detail", "/detail", "GET">>,
     <<"multi_update", "/multi_update", "PUT">>, <<"servers", "/servers", "GET">>,
     <<"show_source", "/source", "GET">>, <<"update_source", "/source", "PUT">>}

C28_EveryAttemptNearsReturn ==
    [][ (dpc = "loop" /\ attempts' > attempts) =>
            \/ dpc' = "returned"
            \/ dpc' = "loop" /\ try' > try /\ try' <= 3
      ]_vars

\* C29: every attempt of a Do call sends the request the first attempt sent:
\* the same method, URL and headers, and the whole body given to Do, also
\* when it follows a response of status >= 500 or a transport failure.
C29_SameRequestEveryAttempt ==
    \A i \in 1..Len(wire) :
        /\ wire[i] = wire[1]
        /\ wire[i].body = call.content

----------------------------------------------------------------------------
(* Properties of captureCmdArgs, checked under SpecCapture *)

\* C30: the arguments captureCmdArgs returns for a recording hold neither the
\* API key, nor the host name, nor the name of the record file, whether the
\* flag and its value came as two arguments or as one (--key=VALUE); a --key
\* that was given is recorded with the value test-key.
C30_NoSecretInRecordedArgs ==
    cpc = "returned" =>
        /\ \A i \in 1..Len(captured) :
              /\ ~ContainsStr(captured[i], RealKey)
              /\ ~ContainsStr(captured[i], RealHost)
              /\ ~ContainsStr(captured[i], RecordName)
        /\ (\E i \in 1..Len(argv) : Len(argv[i]) >= 5 /\ SubSeq(argv[i], 1, 5) = "--key") =>
              \E i \in 1..Len(captured) :
                  \/ captured[i] = "--key=test-key"
                  \/ captured[i] = "--key" /\ i < Len(captured) /\ captured[i + 1] = "test-key"

====
